---- MODULE Spec2Model ----
(***************************************************************************)
(* A model of django_activitypub: HTTP message signing and verification    *)
(* (signed_requests.py), the inbox dispatcher (views.py) and the actor /   *)
(* follower / note store (models.py).                                      *)
(*                                                                         *)
(* Strings that the code splits or parses are sequences of tokens; every   *)
(* other string is an atom.  A signature is the string naming the private  *)
(* key and the signed message, so it verifies only under the matching      *)
(* public key and over an equal message; SHA-256 is injective.             *)
(***************************************************************************)
EXTENDS Integers, Sequences, FiniteSets, TLC

None == "None"

(***************************************************************************)
(* Token strings                                                           *)
(***************************************************************************)
COMMA == ","
EQQ == "=\""
QUOTE == "\""
SP == " "

RECURSIVE Concat(_)
\* "".join(tokens)
Concat(toks) ==
  IF toks = <<>> THEN "" ELSE Head(toks) \o Concat(Tail(toks))

RECURSIVE FirstIndex(_, _, _)
\* the first position >= i of tok in toks, 0 when there is none (str.find)
FirstIndex(toks, tok, i) ==
  IF i > Len(toks) THEN 0
  ELSE IF toks[i] = tok THEN i
  ELSE FirstIndex(toks, tok, i + 1)

RECURSIVE SplitOn(_, _)
\* str.split(sep): always at least one part
SplitOn(toks, sep) ==
  LET i == FirstIndex(toks, sep, 1) IN
  IF i = 0 THEN <<toks>>
  ELSE <<SubSeq(toks, 1, i - 1)>> \o SplitOn(SubSeq(toks, i + 1, Len(toks)), sep)

RECURSIVE JoinWith(_, _)
\* sep.join(items), items atoms
JoinWith(items, sep) ==
  IF items = <<>> THEN <<>>
  ELSE IF Len(items) = 1 THEN <<items[1]>>
  ELSE <<items[1], sep>> \o JoinWith(Tail(items), sep)

\* str.replace(tok, '')
Without(toks, tok) == SelectSeq(toks, LAMBDA t : t # tok)

(***************************************************************************)
(* Keys                                                                    *)
(***************************************************************************)
RsaKeys == {"rsaAlice", "rsaBob", "rsaR1"}
Ed25519Keys == {"edR2"}
OtherKeys == {"ecR3"}
AllKeys == RsaKeys \cup Ed25519Keys \cup OtherKeys

KeyType(k) ==
  IF k \in RsaKeys THEN "rsa" ELSE IF k \in Ed25519Keys THEN "ed25519" ELSE "ec"

\* the signature a holder of private key k makes over message (base64 text)
SignatureOf(k, message) == ToString(<<k, message>>)

\* a signature text whose padding base64 cannot decode
BadBase64 == "A"

\* public_key.verify(signature, message): no InvalidSignature
Verifies(k, signature, message) == signature = SignatureOf(k, message)

(***************************************************************************)
(* signed_requests.py.  A header value is a sequence of tokens; the digest *)
(* value is its first four characters followed by the rest.                *)
(***************************************************************************)
\* base64(sha256(content))
B64Sha256(content) == "h(" \o content \o ")"

\* content_digest_sha256: "SHA-256=" + base64 digest
content_digest_sha256(content) == <<"SHA-", "256=" \o B64Sha256(content)>>

\* HttpSignature.build_message: one "name: value" line per field
build_message(fields) ==
  [i \in 1..Len(fields) |-> fields[i][1] \o ": " \o Concat(fields[i][2])]

\* sign_message: RSA PKCS#1 v1.5 / SHA-256 with the private key
sign_message(private_key, message) == SignatureOf(private_key, message)

\* HttpSignature.build_signature: the Signature header text
build_signature(fields, key_id, private_key) ==
  <<"keyId", EQQ, key_id, QUOTE, COMMA,
    "algorithm", EQQ, "rsa-sha256", QUOTE, COMMA,
    "headers", EQQ>>
  \o JoinWith([i \in 1..Len(fields) |-> fields[i][1]], SP)
  \o <<QUOTE, COMMA,
       "signature", EQQ, sign_message(private_key, build_message(fields)), QUOTE>>

ContentType == <<"application/activity+json">>

\* a URL is its authority and its path; urlparse(url).netloc, urlparse(url).path
Url(netloc, path) == [netloc |-> netloc, path |-> path]
UrlStr(url) == "https://" \o url.netloc \o url.path

\* signed_post signing the whole URL as the request target
SignedPostFieldsWholeUrl(host, target, date_header, body) ==
  << <<"(request-target)", <<"post ", "https://" \o host \o target>> >>,
     <<"host", <<host>> >>,
     <<"date", <<date_header>> >>,
     <<"digest", content_digest_sha256(body)>>,
     <<"content-type", ContentType>> >>

\* the fields signed_post signs, in order
SignedPostFields(host, target, date_header, body) ==
  << <<"(request-target)", <<"post ", target>> >>,
     <<"host", <<host>> >>,
     <<"date", <<date_header>> >>,
     <<"digest", content_digest_sha256(body)>>,
     <<"content-type", ContentType>> >>

\* signed_post: the headers of the request it sends
signed_post(url, date_header, private_key, public_key_url, body) ==
  LET host == url.netloc
      target == url.path
  IN
  [h \in {"accept", "digest", "date", "host", "content-type", "signature", "user-agent"} |->
     CASE h = "accept" -> ContentType
       [] h = "digest" -> content_digest_sha256(body)
       [] h = "date" -> <<date_header>>
       [] h = "host" -> <<host>>
       [] h = "content-type" -> ContentType
       [] h = "signature" ->
            build_signature(SignedPostFields(host, target, date_header, body),
                            public_key_url, private_key)
       [] h = "user-agent" -> <<"django_activitypub">>]

\* the value bound to a name once: Let(S) is the element of the singleton S
Let(S) == CHOOSE x \in S : TRUE

\* header.split(","): the parts, each a token sequence
SignatureParts(header) == SplitOn(header, COMMA)

\* the parts that have no '="' separator (x[1] is an IndexError)
MalformedParts(parts) ==
  {i \in 1..Len(parts) : FirstIndex(parts[i], EQQ, 1) = 0}

\* x.split('="', 1) of every part: name and value, the quotes of the value removed
NameValues(parts) ==
  [i \in 1..Len(parts) |->
     Let({ <<Concat(SubSeq(parts[i], 1, sep - 1)),
             Without(SubSeq(parts[i], sep + 1, Len(parts[i])), QUOTE)>> :
           sep \in {FirstIndex(parts[i], EQQ, 1)} })]

\* the dict comprehension: parameter name -> value tokens, a later part winning
DictOf(nv) ==
  [n \in {nv[i][1] : i \in DOMAIN nv} |->
     nv[CHOOSE i \in DOMAIN nv :
          nv[i][1] = n /\ \A j \in DOMAIN nv : nv[j][1] = n => j <= i][2]]

\* parse_signature_header, for a header all of whose parts have a separator
parse_signature_header(header) ==
  Let({ DictOf(nv) : nv \in {NameValues(SignatureParts(header))} })

\* ValidateResult.success / ValidateResult.fail, and an escaping exception
Success(identity) == [kind |-> "success", identity |-> identity, error |-> None]
Fail(error) == [kind |-> "fail", identity |-> None, error |-> error]
Raise(exc) == [kind |-> "raise", identity |-> None, error |-> exc]

\* str.upper() of a four-character digest prefix
Upper(s) == IF s \in {"sha-", "Sha-", "SHA-"} THEN "SHA-" ELSE s

\* req_digest[:4].upper() + req_digest[4:]
UpperFirst4(value) ==
  IF value = <<>> THEN value ELSE <<Upper(Head(value))>> \o Tail(value)

\* the fields named in the declared list: parsed['headers'].split(' ')
DeclaredFields(parsed) ==
  LET parts == SplitOn(parsed["headers"], SP)
  IN [i \in 1..Len(parts) |-> Concat(parts[i])]

\* SignatureChecker.__init__: controller, key_id and the loaded public key
SignatureChecker(obj) ==
  [controller |-> obj.owner, key_id |-> obj.id, public_key |-> obj.publicKeyPem]

\* the signing string the verifier rebuilds from the declared fields
RebuiltFields(fields, method, url, headers) ==
  [i \in 1..Len(fields) |->
     IF fields[i] = "(request-target)"
     THEN <<fields[i], <<method \o " ", url.path>> >>
     ELSE <<fields[i], headers[fields[i]]>>]

\* validate without the comparison of the digest header with the body
DigestNeverCompared(headers, body) == FALSE

\* lines 147-152: the digest header does not match the body
DigestMismatch(headers, body) ==
  content_digest_sha256(body) # UpperFirst4(headers["digest"])

\* validate without the comparison of the declared keyId
KeyIdNeverCompared(self, parsed) == FALSE

\* line 175: the declared keyId is not the key id resolved for the actor
KeyIdMismatch(self, parsed) == self.key_id # Concat(parsed["keyId"])

\* lines 156-204 of validate, given the parsed Signature header
ValidateParsed(self, method, url, headers, digest, parsed, fields) ==
  LET names == {fields[i] : i \in 1..Len(fields)} IN
  IF "(request-target)" \notin names \/ "date" \notin names
    THEN Fail("Missing required signature fields")
  ELSE IF digest # <<>> /\ "digest" \notin names
    THEN Fail("Missing digest field")
  ELSE IF \E n \in names : n # "(request-target)" /\ n \notin DOMAIN headers
    THEN Raise("KeyError")
  ELSE IF "keyId" \notin DOMAIN parsed THEN Raise("KeyError")
  ELSE IF KeyIdMismatch(self, parsed) THEN Fail("Key ID mismatch")
  ELSE IF "signature" \notin DOMAIN parsed THEN Raise("KeyError")
  ELSE IF Concat(parsed["signature"]) = BadBase64 THEN Raise("binascii.Error")
  ELSE IF KeyType(self.public_key) \in {"rsa", "ed25519"}
    THEN IF Verifies(self.public_key, Concat(parsed["signature"]),
                     build_message(RebuiltFields(fields, method, url, headers)))
         THEN Success(self.controller)
         ELSE Fail("Invalid signature")
  ELSE Fail("Unsupported public key type")

\* SignatureChecker.validate
validate(self, method, url, headers, body) ==
  IF "signature" \notin DOMAIN headers THEN Fail("Missing signature header")
  ELSE IF method = "post" /\ "digest" \notin DOMAIN headers THEN Raise("KeyError")
  ELSE IF method = "post" /\ DigestMismatch(headers, body) THEN Fail("Digest mismatch")
  ELSE IF MalformedParts(SignatureParts(headers["signature"])) # {} THEN Raise("IndexError")
  ELSE
    Let({ IF "headers" \notin DOMAIN parsed THEN Raise("KeyError")
          ELSE Let({ ValidateParsed(self, method, url, headers,
                                    IF method = "post" THEN content_digest_sha256(body)
                                    ELSE <<>>,
                                    parsed, fields) :
                     fields \in {DeclaredFields(parsed)} }) :
          parsed \in {parse_signature_header(headers["signature"])} })

(***************************************************************************)
(* Actors and their keys.  A local actor's RSA pair is generated when the  *)
(* actor is first saved; a remote actor publishes its key in its profile.  *)
(***************************************************************************)
LocalHost == "local"
RemoteHost == "remote"

LocalActors == {"alice", "bob"}
R1 == Url(RemoteHost, "/users/r1")
R2 == Url(RemoteHost, "/users/r2")
R3 == Url(RemoteHost, "/users/r3")
RemoteActorUrls == {R1, R2}

\* reverse('activitypub-profile') and reverse('activitypub-inbox') on this node
ProfileUrl(username) == Url(LocalHost, "/pub/" \o username)
InboxUrl(username) == Url(LocalHost, "/pub/" \o username \o "/inbox")

\* LocalActor.save: the pair generated for a new actor (RSA, 2048 bits)
LocalKey(username) == IF username = "alice" THEN "rsaAlice" ELSE "rsaBob"

\* the key pair a remote actor holds
RemoteKey(url) ==
  IF url = R1 THEN "rsaR1" ELSE IF url = R2 THEN "edR2" ELSE "ecR3"

\* the 'publicKey' object of an actor's profile document (views.profile)
PublicKeyDoc(actorUrl, key) ==
  [id |-> UrlStr(actorUrl) \o "#main-key", owner |-> UrlStr(actorUrl), publicKeyPem |-> key]

(***************************************************************************)
(* Signing and verifying one request: the signer's output is tampered with *)
(* or not, and then verified against some actor's public-key document.     *)
(***************************************************************************)
VARIABLES sigReq, sigHist, sigChecker, sigResult

sigVars == <<sigReq, sigHist, sigChecker, sigResult>>

Bodies == {"b1", "b2"}
DateNow == "Thu, 05 Nov 2026 11:00:00 GMT"

\* every key holder that signs requests: the local actors and the peers
Signers ==
  {[url |-> ProfileUrl(a), key |-> LocalKey(a)] : a \in LocalActors}
  \cup {[url |-> r, key |-> RemoteKey(r)] : r \in {R1, R2, R3}}

SignerKeyId(s) == UrlStr(s.url) \o "#main-key"

\* the declared header lists a peer's own signer may choose
FieldLists ==
  { <<"(request-target)", "host", "date", "digest", "content-type">>,
    <<"date", "digest", "(request-target)">>,
    <<"(request-target)", "host", "digest">>,
    <<"host", "date", "digest">>,
    <<"(request-target)", "host", "date">>,
    <<"(request-target)", "date", "digest", "x-missing">> }

NoRequest == [method |-> None, url |-> Url("", ""), headers |-> <<>>, body |-> ""]
NoChecker == [controller |-> None, key_id |-> None, public_key |-> None]
NoResult == [kind |-> "none", identity |-> None, error |-> None]
NoHist == [signer |-> None, keyId |-> None, digestBody |-> None, clean |-> FALSE, edits |-> 0]

\* how many changes are made to one signed request before it is verified
MaxEdits == 2

SigInit ==
  /\ sigReq = NoRequest
  /\ sigHist = NoHist
  /\ sigChecker = NoChecker
  /\ sigResult = NoResult

\* the value a header has in a request a peer builds
PeerHeader(h, url, method, body, prefix) ==
  CASE h = "host" -> <<url.netloc>>
    [] h = "date" -> <<DateNow>>
    [] h = "digest" -> <<prefix>> \o Tail(content_digest_sha256(body))
    [] h = "content-type" -> ContentType
    [] OTHER -> <<>>

\* this node's signer: signed_post, nothing changed on the way
SigSignedPost(s, url, body) ==
  /\ sigReq = NoRequest
  /\ KeyType(s.key) = "rsa"
  /\ sigReq' = [method |-> "post", url |-> url, body |-> body,
                headers |-> signed_post(url, DateNow, s.key, SignerKeyId(s), body)]
  /\ sigHist' = [signer |-> s.key, keyId |-> SignerKeyId(s), digestBody |-> body,
                 clean |-> TRUE, edits |-> 0]
  /\ sigChecker' = NoChecker
  /\ sigResult' = NoResult

\* the request a peer's own signer builds: its choice of method, declared
\* fields and digest case
PeerSignedHeaders(s, method, url, body, names, prefix) ==
  LET present == {"host", "date", "content-type"}
                 \cup (IF method = "post" THEN {"digest"} ELSE {})
      fields == [i \in 1..Len(names) |->
                   IF names[i] = "(request-target)"
                   THEN <<names[i], <<method \o " ", url.path>> >>
                   ELSE <<names[i], PeerHeader(names[i], url, method, body, prefix)>>]
  IN [h \in present \cup {"signature"} |->
        IF h = "signature"
        THEN build_signature(fields, SignerKeyId(s), s.key)
        ELSE PeerHeader(h, url, method, body, prefix)]

\* a peer signs a request
SigPeerSign(s, method, url, body, names, prefix) ==
  /\ sigReq = NoRequest
  /\ sigReq' = [method |-> method, url |-> url, body |-> body,
                headers |-> PeerSignedHeaders(s, method, url, body, names, prefix)]
  /\ sigHist' = [signer |-> s.key, keyId |-> SignerKeyId(s),
                 digestBody |-> IF method = "post" THEN body ELSE None,
                 clean |-> FALSE, edits |-> 0]
  /\ sigChecker' = NoChecker
  /\ sigResult' = NoResult

HasRequest == sigReq.method # None /\ sigHist.edits < MaxEdits /\ sigResult = NoResult

\* the body is replaced after signing
SigTamperBody(b) ==
  /\ HasRequest
  /\ b # sigReq.body
  /\ sigReq' = [sigReq EXCEPT !.body = b]
  /\ sigHist' = [sigHist EXCEPT !.clean = FALSE, !.edits = @ + 1]
  /\ sigChecker' = NoChecker
  /\ sigResult' = NoResult

\* a header is removed from the request
SigDropHeader(h) ==
  /\ HasRequest
  /\ h \in DOMAIN sigReq.headers
  /\ sigReq' = [sigReq EXCEPT !.headers = [x \in DOMAIN sigReq.headers \ {h} |-> sigReq.headers[x]]]
  /\ sigHist' = [sigHist EXCEPT !.clean = FALSE, !.edits = @ + 1,
                                !.digestBody = IF h = "digest" THEN None ELSE @]
  /\ sigChecker' = NoChecker
  /\ sigResult' = NoResult

RECURSIVE JoinParts(_)
\* ",".join(parts), each part a token sequence
JoinParts(parts) ==
  IF parts = <<>> THEN <<>>
  ELSE IF Len(parts) = 1 THEN parts[1]
  ELSE parts[1] \o <<COMMA>> \o JoinParts(Tail(parts))

\* the name a part of a Signature header gives, None without a separator
PartName(part) ==
  IF FirstIndex(part, EQQ, 1) = 0 THEN None
  ELSE Concat(SubSeq(part, 1, FirstIndex(part, EQQ, 1) - 1))

\* the header without its parameter `name`
DropParam(header, name) ==
  JoinParts(SelectSeq(SplitOn(header, COMMA), LAMBDA p : PartName(p) # name))

\* the header with parameter `name` set to `value`
SetParam(header, name, value) ==
  LET parts == SplitOn(header, COMMA)
  IN JoinParts([i \in 1..Len(parts) |->
                  IF PartName(parts[i]) = name
                  THEN <<name, EQQ, value, QUOTE>> ELSE parts[i]])

MangleKinds == {"nosep", "noheaders", "nokeyid", "nosignature", "badb64", "empty"}

\* the Signature header is rewritten into a malformed one
SigMangle(kind) ==
  LET old == sigReq.headers["signature"]
      new == CASE kind = "nosep" -> old \o <<COMMA, "junk">>
               [] kind = "noheaders" -> DropParam(old, "headers")
               [] kind = "nokeyid" -> DropParam(old, "keyId")
               [] kind = "nosignature" -> DropParam(old, "signature")
               [] kind = "badb64" -> SetParam(old, "signature", BadBase64)
               [] kind = "empty" -> <<>>
  IN
  /\ HasRequest
  /\ "signature" \in DOMAIN sigReq.headers
  /\ new # old
  /\ sigReq' = [sigReq EXCEPT !.headers["signature"] = new]
  /\ sigHist' = [sigHist EXCEPT !.clean = FALSE, !.edits = @ + 1,
                                !.keyId = IF kind \in {"nokeyid", "empty"} THEN None ELSE @]
  /\ sigChecker' = NoChecker
  /\ sigResult' = NoResult

\* the keyId parameter is rewritten; the signature bytes stay as they were
SigSetKeyId(s) ==
  /\ HasRequest
  /\ "signature" \in DOMAIN sigReq.headers
  /\ sigHist.keyId \notin {None, SignerKeyId(s)}
  /\ sigReq' = [sigReq EXCEPT !.headers["signature"] = SetParam(@, "keyId", SignerKeyId(s))]
  /\ sigHist' = [sigHist EXCEPT !.clean = FALSE, !.edits = @ + 1, !.keyId = SignerKeyId(s)]
  /\ sigChecker' = NoChecker
  /\ sigResult' = NoResult

\* the receiver verifies against the public-key document it resolved for actor s
SigValidate(s) ==
  /\ sigReq.method # None
  /\ sigResult = NoResult
  /\ sigChecker' = SignatureChecker(PublicKeyDoc(s.url, s.key))
  /\ sigResult' = validate(sigChecker', sigReq.method, sigReq.url, sigReq.headers, sigReq.body)
  /\ UNCHANGED <<sigReq, sigHist>>

(***************************************************************************)
(* The store (models.py).  A table with a unique key is the number of rows *)
(* per key; the Note table, whose content_url is indexed but not unique,   *)
(* is the sequence of its rows in insertion order.                         *)
(***************************************************************************)
VARIABLES remoteActors, followers, notes, profileCache, resp, sent, last, upserted

storeVars == <<remoteActors, followers, notes, profileCache, resp, sent, last, upserted>>

NoUrl == Url("", "")

\* content URLs: two notes of this node, two notes of a peer, and the second
\* name the peer serves its first note under
N1 == Url(LocalHost, "/notes/1")
N2 == Url(LocalHost, "/notes/2")
\* a note of another host whose name begins with the name of this node
E1 == Url(LocalHost \o ".evil.example", "/notes/1")
X1 == Url(RemoteHost, "/notes/1")
X1b == Url(RemoteHost, "/notes/1/activity")
X2 == Url(RemoteHost, "/notes/2")
X3 == Url(RemoteHost, "/notes/3")
NoteUrls == {N1, N2, X1, X2}
Contents == {"a", "b"}

\* the most rows the Note table holds
MaxNotes == 3

FollowerPairs == RemoteActorUrls \X LocalActors

\* Model.objects.get on `count` matching rows
GetResult(count) ==
  IF count = 0 THEN "DoesNotExist" ELSE IF count = 1 THEN "one" ELSE "MultipleObjectsReturned"

\* the profile document a remote actor serves: its inbox and its public key
ProfileDoc(url) ==
  [id |-> url, inbox |-> Url(url.netloc, url.path \o "/inbox"),
   publicKey |-> PublicKeyDoc(url, RemoteKey(url))]

\* what a GET of a remote profile can end in
FetchOutcomes == {"ok", "http404", "http410", "noresponse", "badjson"}

\* fetch_remote_profile under lru_cache: a cached URL is answered from the cache
fetch_remote_profile(cache, url, outcome) ==
  IF url \in cache THEN [exc |-> None, status |-> 0, cache |-> cache]
  ELSE CASE outcome = "ok" -> [exc |-> None, status |-> 0, cache |-> cache \cup {url}]
         [] outcome = "http404" -> [exc |-> "WebfingerException", status |-> 404, cache |-> cache]
         [] outcome = "http410" -> [exc |-> "WebfingerException", status |-> 410, cache |-> cache]
         [] outcome = "noresponse" -> [exc |-> "WebfingerException", status |-> 0, cache |-> cache]
         [] outcome = "badjson" -> [exc |-> "JSONDecodeError", status |-> 0, cache |-> cache]

\* a database state and the rows of the Note table with a content URL
Db(ra, fl, ns) == [ra |-> ra, fl |-> fl, notes |-> ns]
NotesAt(ns, url) == {i \in 1..Len(ns) : ns[i].content_url = url}

\* get_or_create_with_url fetching the profile before it looks for the record
get_or_create_with_urlFetchFirst(db, cache, url, outcome) ==
  LET f == fetch_remote_profile(cache, url, outcome) IN
  IF f.exc # None THEN [db |-> db, cache |-> f.cache, exc |-> f.exc]
  ELSE IF db.ra[url] > 0 THEN [db |-> db, cache |-> f.cache, exc |-> None]
  ELSE [db |-> [db EXCEPT !.ra[url] = @ + 1], cache |-> f.cache, exc |-> None]

\* RemoteActorManager.get_or_create_with_url
get_or_create_with_url(db, cache, url, outcome) ==
  IF GetResult(db.ra[url]) = "one" THEN [db |-> db, cache |-> cache, exc |-> None]
  ELSE IF GetResult(db.ra[url]) = "MultipleObjectsReturned"
    THEN [db |-> db, cache |-> cache, exc |-> "MultipleObjectsReturned"]
  ELSE
    LET f == fetch_remote_profile(cache, url, outcome) IN
    IF f.exc # None THEN [db |-> db, cache |-> f.cache, exc |-> f.exc]
    ELSE [db |-> [db EXCEPT !.ra[url] = @ + 1], cache |-> f.cache, exc |-> None]

\* Follower.objects.get_or_create: the unique pair, an IntegrityError re-read
follower_get_or_create(db, remote, local) ==
  IF db.fl[<<remote, local>>] > 0 THEN db
  ELSE [db EXCEPT !.fl[<<remote, local>>] = 1]

\* the rows of a many-to-many relation of one note, per remote actor
NoRelated == [r \in RemoteActorUrls |-> 0]

\* the relation's add() inserting a row whether or not there is one
RelatedAddAlwaysInserts(rows, actor) == [rows EXCEPT ![actor] = @ + 1]

\* note.likes.add(actor) / note.announces.add(actor): a row is inserted only
\* for an actor that has none
RelatedAdd(rows, actor) ==
  IF rows[actor] > 0 THEN rows ELSE [rows EXCEPT ![actor] = 1]

\* note.likes.remove(actor) / note.announces.remove(actor): the actor's rows
\* are deleted, none being no error
RelatedRemove(rows, actor) == [rows EXCEPT ![actor] = 0]

NewNote(url, local, remote, content, parent) ==
  [content_url |-> url, local_actor |-> local, remote_actor |-> remote,
   content |-> content, parent |-> parent, likes |-> NoRelated, announces |-> NoRelated]

(***************************************************************************)
(* Outbound fan-out (models.py, send_*_note_to_followers)                  *)
(***************************************************************************)
\* followers.all() of a local actor, in the order the database returns them
FollowerOrders(fl, local) ==
  LET fs == {r \in RemoteActorUrls : fl[<<r, local>>] > 0}
  IN {o \in [1..Cardinality(fs) -> fs] : \A i, j \in DOMAIN o : o[i] = o[j] => i = j}

\* a fan-out that goes on to the remaining followers after a failed delivery
DeliveriesPastFailure(type, local, order, failing) ==
  [i \in 1..Len(order) |->
     [type |-> type, from |-> local, to |-> ProfileDoc(order[i]).inbox,
      ok |-> order[i] \notin failing]]

\* the deliveries of one fan-out: one signed POST per follower, in order,
\* stopping at the first whose raise_for_status raises
Deliveries(type, local, order, failing) ==
  LET firstBad == IF \E i \in DOMAIN order : order[i] \in failing
                  THEN CHOOSE i \in DOMAIN order :
                         order[i] \in failing /\ \A j \in 1..(i - 1) : order[j] \notin failing
                  ELSE Len(order)
  IN [i \in 1..firstBad |->
        [type |-> type, from |-> local, to |-> ProfileDoc(order[i]).inbox,
         ok |-> order[i] \notin failing]]

AllOk(ds) == \A i \in DOMAIN ds : ds[i].ok

\* send_create_/send_update_/send_delete_note_to_followers: the first line
\* reads note.local_actor, which a remote-authored note does not have
send_to_followers(type, note, fl, order, failing) ==
  IF note.local_actor = None THEN [exc |-> "AttributeError", sent |-> <<>>]
  ELSE LET ds == Deliveries(type, note.local_actor, order, failing)
       IN [exc |-> IF AllOk(ds) THEN None ELSE "HTTPError", sent |-> ds]

(***************************************************************************)
(* Timestamps (utils/dates.py parse_datetime, models.py parse_datetime).   *)
(* A timestamp text is the sequence of the pieces a format cuts it into:   *)
(* <<date, "T", time, zone>> or <<date, "T", time, ".", digits, zone>>.     *)
(***************************************************************************)
DigitVal ==
  [c \in {"0", "1", "2", "3", "4", "5", "6", "7", "8", "9"} |->
     CASE c = "0" -> 0 [] c = "1" -> 1 [] c = "2" -> 2 [] c = "3" -> 3 [] c = "4" -> 4
       [] c = "5" -> 5 [] c = "6" -> 6 [] c = "7" -> 7 [] c = "8" -> 8 [] OTHER -> 9]

\* the value of a string of digits, given as its characters
RECURSIVE Magnitude(_)
Magnitude(d) == IF d = <<>> THEN 0 ELSE 10 * Magnitude(SubSeq(d, 1, Len(d) - 1)) + DigitVal[d[Len(d)]]

Dates == {"2018-10-14", "2024-01-13", "2024-02-30"}
Times == {"19:23:31", "05:59:20", "24:00:00"}
Fractions == {<<"2", "9", "6", "1", "2", "8">>, <<"5">>, <<"0">>, <<>>,
              <<"1", "2", "3", "4", "5", "6", "7">>}
Zones == {"Z", "+00:00"}

\* the dates and times of day among them that exist
ValidDates == {"2018-10-14", "2024-01-13"}
ValidTimes == {"19:23:31", "05:59:20"}

StampTexts ==
  {<<d, "T", t, z>> : d \in Dates, t \in Times, z \in Zones}
  \cup {<<d, "T", t, ".", f, "Z">> : d \in Dates, t \in Times, f \in Fractions}

\* '%Y-%m-%dT%H:%M:%SZ' and '%Y-%m-%dT%H:%M:%S.%fZ'
FormatSeconds == <<"%Y-%m-%d", "T", "%H:%M:%S", "Z">>
FormatMicroseconds == <<"%Y-%m-%d", "T", "%H:%M:%S", ".", "%f", "Z">>

\* a piece of text matches a piece of a format: a directive, or itself
Matches(piece, directive) ==
  CASE directive = "%Y-%m-%d" -> piece \in ValidDates
    [] directive = "%H:%M:%S" -> piece \in ValidTimes
    [] directive = "%f" -> Len(piece) \in 1..6 /\ \A i \in DOMAIN piece : piece[i] \in DOMAIN DigitVal
    [] OTHER -> piece = directive

\* datetime.strptime(text, format) raises ValueError
StrptimeRaises(text, format) ==
  Len(text) # Len(format) \/ \E i \in DOMAIN format : ~Matches(text[i], format[i])

Pow10 == [n \in 0..5 |-> CASE n = 0 -> 1 [] n = 1 -> 10 [] n = 2 -> 100 [] n = 3 -> 1000
                            [] n = 4 -> 10000 [] OTHER -> 100000]

Instant(date, time, microsecond) == [date |-> date, time |-> time, microsecond |-> microsecond]

\* datetime.strptime(text, format) when it does not raise; %f reads its
\* digits as a fraction of a second
Strptime(text, format) ==
  Instant(text[1], text[3],
          IF Len(format) = 6 THEN Magnitude(text[5]) * Pow10[6 - Len(text[5])] ELSE 0)

Parsed(exc, instant) == [exc |-> exc, instant |-> instant]
NoInstant == Instant("", "", 0)

\* models.parse_datetime(time)
models_parse_datetime(text) ==
  IF StrptimeRaises(text, FormatSeconds) THEN Parsed("ValueError", NoInstant)
  ELSE Parsed(None, Strptime(text, FormatSeconds))

\* utils.dates.parse_datetime(time)
parse_datetime(text) ==
  IF ~StrptimeRaises(text, FormatSeconds) THEN Parsed(None, Strptime(text, FormatSeconds))
  ELSE IF StrptimeRaises(text, FormatMicroseconds) THEN Parsed("ValueError", NoInstant)
  ELSE Parsed(None, Strptime(text, FormatMicroseconds))

\* the two forms peers send
StampSeconds == <<"2018-10-14", "T", "19:23:31", "Z">>
StampMicroseconds == <<"2024-01-13", "T", "05:59:20", ".", <<"2", "9", "6", "1", "2", "8">>, "Z">>

(***************************************************************************)
(* Remote note documents (models.get_object) and upsert_remote             *)
(***************************************************************************)
NoDoc == [id |-> NoUrl, attributedTo |-> NoUrl, content |-> "", inReplyTo |-> NoUrl,
          published |-> <<>>]

\* a Note document a peer serves, published at a whole second
Doc(id, author, content, reply) ==
  [id |-> id, attributedTo |-> author, content |-> content, inReplyTo |-> reply,
   published |-> StampSeconds]

\* the document with another `published`
Published(doc, text) == [doc EXCEPT !.published = text]

\* the base URI of this node, and url.startswith(base_uri): the authority of
\* url begins with the authority of this node
StartsWithBase(url) == url.netloc \in {LocalHost, LocalHost \o ".evil.example"}

\* the longest inReplyTo chain upsert_remote follows
MaxChain == 3

RECURSIVE upsert_remote(_, _, _, _, _, _)
\* NoteManager.upsert_remote(base_uri, obj) with obj['id'] = objId; world is
\* what each remote URL answers (NoDoc: a non-2xx answer), pfetch the outcome
\* of an uncached profile fetch.  Every save made before an exception stays.
upsert_remote(db, cache, objId, world, pfetch, depth) ==
  LET full == IF objId \in DOMAIN world THEN world[objId] ELSE NoDoc
      at == NotesAt(db.notes, full.id)
      fail(d, c, e) == [db |-> d, cache |-> c, exc |-> e, note |-> 0]
  IN
  IF depth = 0 THEN fail(db, cache, "RecursionError")
  ELSE IF full = NoDoc THEN fail(db, cache, "HTTPError")
  ELSE IF GetResult(Cardinality(at)) = "MultipleObjectsReturned"
    THEN fail(db, cache, "MultipleObjectsReturned")
  ELSE
    LET g == get_or_create_with_url(db, cache, full.attributedTo, pfetch) IN
    IF g.exc # None THEN fail(g.db, g.cache, g.exc)
    ELSE IF models_parse_datetime(full.published).exc # None
      THEN fail(g.db, g.cache, "ValueError")
    ELSE
      LET reply == full.inReplyTo
          replyAt == NotesAt(g.db.notes, reply)
          up == IF reply = NoUrl \/ StartsWithBase(reply)
                THEN [db |-> g.db, cache |-> g.cache, exc |-> None, note |-> 0]
                ELSE IF reply \notin DOMAIN world \/ world[reply] = NoDoc
                THEN fail(g.db, g.cache, "HTTPError")
                ELSE upsert_remote(g.db, g.cache, world[reply].id, world, pfetch, depth - 1)
      IN
      IF reply # NoUrl /\ StartsWithBase(reply) /\ GetResult(Cardinality(replyAt)) # "one"
        THEN fail(g.db, g.cache, GetResult(Cardinality(replyAt)))
      ELSE IF up.exc # None THEN up
      ELSE
        LET ns == up.db.notes
            idx == IF at = {} THEN Len(ns) + 1 ELSE CHOOSE i \in at : TRUE
            old == IF at = {} THEN NewNote(NoUrl, None, NoUrl, "", 0)
                   ELSE [db.notes[idx] EXCEPT !.likes = ns[idx].likes,
                                              !.announces = ns[idx].announces]
            parent == IF reply = NoUrl THEN old.parent
                      ELSE IF StartsWithBase(reply) THEN CHOOSE i \in replyAt : TRUE
                      ELSE up.note
            row == [old EXCEPT !.remote_actor = full.attributedTo,
                               !.content = full.content,
                               !.content_url = objId,
                               !.parent = parent]
            saved == IF at = {} THEN Append(ns, row) ELSE [ns EXCEPT ![idx] = row]
        IN [db |-> [up.db EXCEPT !.notes = saved], cache |-> up.cache,
            exc |-> None, note |-> idx]

RECURSIVE get_object_calls(_, _, _)
\* the URLs get_object is called with, in order, by an upsert_remote of
\* objId that returns: obj['id'], and for a reply to a note of another host
\* the inReplyTo and then the calls of the parent's own upsert_remote
get_object_calls(objId, world, depth) ==
  LET full == IF objId \in DOMAIN world THEN world[objId] ELSE NoDoc
      reply == full.inReplyTo
  IN IF depth = 0 \/ full = NoDoc THEN <<>>
     ELSE IF reply = NoUrl \/ StartsWithBase(reply) \/ reply \notin DOMAIN world
       THEN <<objId>>
     ELSE <<objId, reply>> \o get_object_calls(world[reply].id, world, depth - 1)

\* a get_object call: what the URL answered, and whether a Note with that
\* content URL was stored when the request came in
Fetched(db, world, url) ==
  [url |-> url, doc |-> IF url \in DOMAIN world THEN world[url] ELSE NoDoc,
   known |-> NotesAt(db.notes, url) # {}]

(***************************************************************************)
(* The inbox (views.py)                                                    *)
(***************************************************************************)
Usernames == LocalActors \cup {"ghost"}

\* django.urls.resolve(path) against urls.py
Route(path) ==
  IF \E u \in Usernames : path = "/pub/" \o u
    THEN [url_name |-> "activitypub-profile",
          username |-> CHOOSE u \in Usernames : path = "/pub/" \o u]
  ELSE IF \E u \in Usernames : path = "/pub/" \o u \o "/inbox"
    THEN [url_name |-> "activitypub-inbox",
          username |-> CHOOSE u \in Usernames : path = "/pub/" \o u \o "/inbox"]
  ELSE [url_name |-> "Resolver404", username |-> None]

\* LocalActorManager.get_by_url: the actor, None, or the exception raised
get_by_url(url) ==
  LET match == Route(url.path) IN
  IF match.url_name = "Resolver404" THEN [kind |-> "Resolver404", actor |-> None]
  ELSE IF match.url_name = "activitypub-profile"
    THEN IF match.username \in LocalActors /\ url.netloc = LocalHost
         THEN [kind |-> "actor", actor |-> match.username]
         ELSE [kind |-> "DoesNotExist", actor |-> None]
  ELSE [kind |-> "None", actor |-> None]

\* an activity: its type, its actor, its object (a URL, or the id of the
\* object of a Create) and, for an Undo, the type and actor of the object
Activity(type, actor, object, innerType, innerActor) ==
  [type |-> type, actor |-> actor, object |-> object,
   innerType |-> innerType, innerActor |-> innerActor]

\* json.dumps(activity)
JsonDumps(act) == ToString(act)

OtherActor(url) == IF url = R1 THEN R2 ELSE R1

FullFields == <<"(request-target)", "host", "date", "digest", "content-type">>

\* how the sender of an inbox request signed it
AuthKinds == {"good", "stolenid", "otherkey", "nosig", "tampered", "nodigest"}

Drop(headers, h) == [x \in DOMAIN headers \ {h} |-> headers[x]]

\* the headers of a POST of activity act to url, by the way it was signed
InboxHeaders(act, url, auth) ==
  LET claimed == IF act.actor = NoUrl THEN R1 ELSE act.actor
      me == [url |-> claimed, key |-> RemoteKey(claimed)]
      thief == [url |-> claimed, key |-> RemoteKey(OtherActor(claimed))]
      other == [url |-> OtherActor(claimed), key |-> RemoteKey(OtherActor(claimed))]
      body == JsonDumps(act)
      good == PeerSignedHeaders(me, "post", url, body, FullFields, "SHA-")
  IN CASE auth = "good" -> good
       [] auth = "stolenid" -> PeerSignedHeaders(thief, "post", url, body, FullFields, "SHA-")
       [] auth = "otherkey" -> PeerSignedHeaders(other, "post", url, body, FullFields, "SHA-")
       [] auth = "nosig" -> Drop(good, "signature")
       [] auth = "tampered" ->
            PeerSignedHeaders(me, "post", url, "signed body", FullFields, "SHA-")
       [] auth = "nodigest" -> Drop(good, "digest")

\* validate_post_request: status 0 lets the request through
validate_post_request(cache, act, url, headers, fetch) ==
  IF act.actor = NoUrl
    THEN [status |-> 400, exc |-> None, cache |-> cache, verify |-> NoResult]
  ELSE
    LET f == fetch_remote_profile(cache, act.actor, fetch) IN
    IF f.exc = "WebfingerException"
      THEN IF f.status = 0
             THEN [status |-> 500, exc |-> "AttributeError", cache |-> f.cache,
                   verify |-> NoResult]
           ELSE IF f.status = 410 /\ act.type = "Delete"
             THEN [status |-> 410, exc |-> None, cache |-> f.cache, verify |-> NoResult]
           ELSE [status |-> 401, exc |-> None, cache |-> f.cache, verify |-> NoResult]
    ELSE IF f.exc # None
      THEN [status |-> 500, exc |-> f.exc, cache |-> f.cache, verify |-> NoResult]
    ELSE
      LET checker == SignatureChecker(ProfileDoc(act.actor).publicKey)
          result == validate(checker, "post", url, headers, JsonDumps(act))
      IN IF result.kind = "raise"
           THEN [status |-> 500, exc |-> result.error, cache |-> f.cache, verify |-> result]
         ELSE IF result.kind # "success"
           THEN [status |-> 401, exc |-> None, cache |-> f.cache, verify |-> result]
         ELSE [status |-> 0, exc |-> None, cache |-> f.cache, verify |-> result]

\* what a branch of the inbox ends in: the database, the cache, the response
\* (status 500: an exception left the view) and the deliveries made
Out(db, cache, status, exc, deliveries) ==
  [db |-> db, cache |-> cache, status |-> status, exc |-> exc, sent |-> deliveries,
   error |-> None]

\* JsonResponse({'error': f'{text}{named}'}, status=400) of the dispatcher
Reject(db, cache, text, named) ==
  [Out(db, cache, 400, None, <<>>) EXCEPT !.error = <<text, named>>]

\* get_object_or_404(Note, content_url=url)
NoteOr404(db, url) ==
  LET r == GetResult(Cardinality(NotesAt(db.notes, url)))
  IN IF r = "DoesNotExist" THEN 404 ELSE IF r = "one" THEN 0 ELSE 500

\* get_object_or_404(RemoteActor, url=url)
RemoteActorOr404(db, url) ==
  LET r == GetResult(db.ra[url])
  IN IF r = "DoesNotExist" THEN 404 ELSE IF r = "one" THEN 0 ELSE 500

\* the identity binding check of Follow and Undo(Follow): 0 when the object
\* is the profile URL of the actor that owns the inbox
BindingStatus(object, owner) ==
  LET la == get_by_url(object) IN
  CASE la.kind = "Resolver404" -> 404
    [] la.kind = "DoesNotExist" -> 500
    [] la.kind = "None" -> 500
    [] la.kind = "actor" -> IF la.actor # owner THEN 400 ELSE 0

BindingExc(object) ==
  LET la == get_by_url(object) IN
  CASE la.kind = "DoesNotExist" -> "LocalActor.DoesNotExist"
    [] la.kind = "None" -> "AttributeError"
    [] OTHER -> None

\* how a request whose object is not bound to the inbox owner ends
Unbound(db, cache, object, owner, text) ==
  IF BindingStatus(object, owner) = 400 THEN Reject(db, cache, text, UrlStr(object))
  ELSE Out(db, cache, BindingStatus(object, owner), BindingExc(object), <<>>)

\* the Follow branch undoing its writes when the Accept is not delivered
InboxFollowRollsBack(db, cache, owner, act, accept) ==
  IF BindingStatus(act.object, owner) # 0
    THEN Unbound(db, cache, act.object, owner, "follow object does not match actor: ")
  ELSE
    LET g == get_or_create_with_url(db, cache, act.actor, "ok")
        post == <<[type |-> "Accept", from |-> owner,
                   to |-> ProfileDoc(act.actor).inbox, ok |-> accept = "ok"]>>
    IN IF g.exc # None THEN Out(db, g.cache, 500, g.exc, <<>>)
       ELSE IF accept = "ok"
         THEN Out(follower_get_or_create(g.db, act.actor, owner), g.cache, 200, None, post)
       ELSE Out(db, g.cache, 500, "HTTPError", post)

\* activity['type'] == 'Follow'
InboxFollow(db, cache, owner, act, accept) ==
  IF BindingStatus(act.object, owner) # 0
    THEN Unbound(db, cache, act.object, owner, "follow object does not match actor: ")
  ELSE
    LET g == get_or_create_with_url(db, cache, act.actor, "ok") IN
    IF g.exc # None THEN Out(g.db, g.cache, 500, g.exc, <<>>)
    ELSE
      LET db2 == follower_get_or_create(g.db, act.actor, owner)
          post == <<[type |-> "Accept", from |-> owner,
                     to |-> ProfileDoc(act.actor).inbox, ok |-> accept = "ok"]>>
      IN IF accept = "ok" THEN Out(db2, g.cache, 200, None, post)
         ELSE Out(db2, g.cache, 500, "HTTPError", post)

\* the Like / Announce branch resolving the sender before the note
InboxReactActorFirst(db, cache, act, field) ==
  LET g == get_or_create_with_url(db, cache, act.actor, "ok") IN
  IF g.exc # None THEN Out(g.db, g.cache, 500, g.exc, <<>>)
  ELSE IF NoteOr404(g.db, act.object) = 404 THEN Out(g.db, g.cache, 404, None, <<>>)
  ELSE IF NoteOr404(g.db, act.object) = 500
    THEN Out(g.db, g.cache, 500, "MultipleObjectsReturned", <<>>)
  ELSE
    LET i == CHOOSE j \in NotesAt(g.db.notes, act.object) : TRUE IN
    IF field = "likes"
      THEN Out([g.db EXCEPT !.notes[i].likes = RelatedAdd(@, act.actor)],
               g.cache, 200, None, <<>>)
    ELSE Out([g.db EXCEPT !.notes[i].announces = RelatedAdd(@, act.actor)],
             g.cache, 200, None, <<>>)

\* activity['type'] in ('Like', 'Announce'): field is "likes" or "announces"
InboxReact(db, cache, act, field) ==
  IF NoteOr404(db, act.object) = 404 THEN Out(db, cache, 404, None, <<>>)
  ELSE IF NoteOr404(db, act.object) = 500
    THEN Out(db, cache, 500, "MultipleObjectsReturned", <<>>)
  ELSE
    LET i == CHOOSE j \in NotesAt(db.notes, act.object) : TRUE
        g == get_or_create_with_url(db, cache, act.actor, "ok")
    IN IF g.exc # None THEN Out(g.db, g.cache, 500, g.exc, <<>>)
       ELSE IF field = "likes"
         THEN Out([g.db EXCEPT !.notes[i].likes = RelatedAdd(@, act.actor)],
                  g.cache, 200, None, <<>>)
       ELSE Out([g.db EXCEPT !.notes[i].announces = RelatedAdd(@, act.actor)],
                g.cache, 200, None, <<>>)

\* activity['type'] == 'Create'
InboxCreate(db, cache, act, world, pfetch) ==
  IF StartsWithBase(act.object) THEN Out(db, cache, 200, None, <<>>)
  ELSE LET u == upsert_remote(db, cache, act.object, world, pfetch, MaxChain)
       IN IF u.exc # None THEN Out(u.db, u.cache, 500, u.exc, <<>>)
          ELSE Out(u.db, u.cache, 200, None, <<>>)

\* activity['type'] == 'Undo'
InboxUndo(db, cache, owner, act) ==
  IF act.innerType = "Follow" THEN
    IF BindingStatus(act.object, owner) # 0
      THEN Unbound(db, cache, act.object, owner, "undo follow object does not match actor: ")
    ELSE IF RemoteActorOr404(db, act.innerActor) # 0
      THEN Out(db, cache, RemoteActorOr404(db, act.innerActor), None, <<>>)
    ELSE Out([db EXCEPT !.fl[<<act.innerActor, owner>>] = 0], cache, 200, None, <<>>)
  ELSE IF act.innerType \in {"Like", "Announce"} THEN
    IF NoteOr404(db, act.object) = 404 THEN Out(db, cache, 404, None, <<>>)
    ELSE IF NoteOr404(db, act.object) = 500
      THEN Out(db, cache, 500, "MultipleObjectsReturned", <<>>)
    ELSE IF RemoteActorOr404(db, act.innerActor) # 0
      THEN Out(db, cache, RemoteActorOr404(db, act.innerActor), None, <<>>)
    ELSE
      LET i == CHOOSE j \in NotesAt(db.notes, act.object) : TRUE IN
      IF act.innerType = "Like"
        THEN Out([db EXCEPT !.notes[i].likes = RelatedRemove(@, act.innerActor)],
                 cache, 200, None, <<>>)
      ELSE Out([db EXCEPT !.notes[i].announces = RelatedRemove(@, act.innerActor)],
               cache, 200, None, <<>>)
  ELSE Reject(db, cache, "unsupported undo type: ", act.innerType)

\* the dispatcher acknowledging an activity of a type it does not know
InboxDispatchAcksUnknown(db, cache, owner, act, accept, world, pfetch) ==
  CASE act.type = "Follow" -> InboxFollow(db, cache, owner, act, accept)
    [] act.type = "Like" -> InboxReact(db, cache, act, "likes")
    [] act.type = "Announce" -> InboxReact(db, cache, act, "announces")
    [] act.type = "Create" -> InboxCreate(db, cache, act, world, pfetch)
    [] act.type = "Undo" -> InboxUndo(db, cache, owner, act)
    [] OTHER -> Out(db, cache, 200, None, <<>>)

\* the dispatcher removing the stored notes a Delete names
InboxDispatchDeleteRemoves(db, cache, owner, act, accept, world, pfetch) ==
  CASE act.type = "Follow" -> InboxFollow(db, cache, owner, act, accept)
    [] act.type = "Like" -> InboxReact(db, cache, act, "likes")
    [] act.type = "Announce" -> InboxReact(db, cache, act, "announces")
    [] act.type = "Create" -> InboxCreate(db, cache, act, world, pfetch)
    [] act.type = "Undo" -> InboxUndo(db, cache, owner, act)
    [] act.type = "Delete" ->
         Out([db EXCEPT !.notes = SelectSeq(db.notes, LAMBDA n : n.content_url # act.object)],
             cache, 200, None, <<>>)
    [] OTHER -> Reject(db, cache, "unsupported activity type: ", act.type)

\* the dispatch on activity['type'] of an authenticated POST to a local actor
InboxDispatch(db, cache, owner, act, accept, world, pfetch) ==
  CASE act.type = "Follow" -> InboxFollow(db, cache, owner, act, accept)
    [] act.type = "Like" -> InboxReact(db, cache, act, "likes")
    [] act.type = "Announce" -> InboxReact(db, cache, act, "announces")
    [] act.type = "Create" -> InboxCreate(db, cache, act, world, pfetch)
    [] act.type = "Undo" -> InboxUndo(db, cache, owner, act)
    [] act.type = "Delete" -> Out(db, cache, 200, None, <<>>)
    [] OTHER -> Reject(db, cache, "unsupported activity type: ", act.type)

\* views.inbox for a POST; v is what validate_post_request returned
inbox(db, cache, username, act, v, accept, world, pfetch) ==
  IF v.status # 0 THEN Out(db, v.cache, v.status, v.exc, <<>>)
  ELSE IF username \notin LocalActors THEN Out(db, v.cache, 404, None, <<>>)
  ELSE InboxDispatch(db, v.cache, username, act, accept, world, pfetch)

(***************************************************************************)
(* The operations.  `last` records what the latest operation was given and *)
(* what it found; resp is its response (for a call of the hosting          *)
(* application: 200 when it returned, 500 when it raised); sent is the     *)
(* signed deliveries it made, in order.                                    *)
(***************************************************************************)
NoLast ==
  [op |-> "init", type |-> None, inner |-> None, actor |-> NoUrl, undone |-> NoUrl,
   verify |-> "none", error |-> None,
   changed |-> FALSE, bound |-> "na", prior |-> "na", target |-> "na",
   object |-> NoUrl, doc |-> NoDoc, local |-> FALSE, fetch |-> "ok", fetched |-> <<>>,
   before |-> 0, called |-> None]

Response(status, exc) == [status |-> status, exc |-> exc, error |-> None]

StoreInit ==
  /\ remoteActors = [u \in RemoteActorUrls |-> 0]
  /\ followers = [p \in FollowerPairs |-> 0]
  /\ notes = <<>>
  /\ profileCache = {}
  /\ resp = Response(0, None)
  /\ sent = <<>>
  /\ last = NoLast
  /\ upserted = [u \in NoteUrls |-> None]

Current == Db(remoteActors, followers, notes)

\* whether the object of a Follow or an Undo(Follow) sent to the inbox of an
\* existing local actor is the profile URL of that actor
Bound(username, act) ==
  IF username \in LocalActors /\ act.actor # NoUrl
     /\ (act.type = "Follow" \/ (act.type = "Undo" /\ act.innerType = "Follow"))
  THEN IF BindingStatus(act.object, username) = 0 THEN "yes" ELSE "no"
  ELSE "na"

\* whether the effect an Undo names exists for the actor that sent it
PriorEffect(db, username, act) ==
  IF username \in LocalActors /\ act.actor \in RemoteActorUrls /\ act.type = "Undo"
     /\ act.innerType \in {"Follow", "Like", "Announce"}
  THEN IF (CASE act.innerType = "Follow" ->
                   get_by_url(act.object).kind = "actor"
                   /\ db.fl[<<act.actor, get_by_url(act.object).actor>>] > 0
              [] act.innerType = "Like" ->
                   \E i \in NotesAt(db.notes, act.object) : db.notes[i].likes[act.actor] > 0
              [] act.innerType = "Announce" ->
                   \E i \in NotesAt(db.notes, act.object) :
                     db.notes[i].announces[act.actor] > 0)
       THEN "yes" ELSE "no"
  ELSE "na"

\* for a request to the inbox of an existing local actor: whether the object
\* of a Like or an Announce is the content URL of a stored Note, and whether
\* the host of the object of a Create is the host of this node
Target(db, username, act) ==
  IF username \in LocalActors /\ act.actor # NoUrl /\ act.type \in {"Like", "Announce"}
  THEN IF NotesAt(db.notes, act.object) # {} THEN "stored" ELSE "absent"
  ELSE IF username \in LocalActors /\ act.actor # NoUrl /\ act.type = "Create"
  THEN IF act.object.netloc = LocalHost THEN "own" ELSE "foreign"
  ELSE "na"

\* a POST to the inbox of `username`
InboxPost(username, act, auth, fetch, accept, world, pfetch) ==
  \E headers \in {InboxHeaders(act, InboxUrl(username), auth)} :
  \E v \in {validate_post_request(profileCache, act, InboxUrl(username), headers, fetch)} :
  \E o \in {inbox(Current, profileCache, username, act, v, accept, world, pfetch)} :
  /\ Len(o.db.notes) <= MaxNotes
  /\ remoteActors' = o.db.ra
  /\ followers' = o.db.fl
  /\ notes' = o.db.notes
  /\ profileCache' = o.cache
  /\ resp' = [Response(o.status, o.exc) EXCEPT !.error = o.error]
  /\ sent' = o.sent
  /\ last' = [op |-> "inbox", type |-> act.type,
              inner |-> IF act.type = "Undo" THEN act.innerType ELSE None,
              actor |-> IF act.type = "Undo" THEN act.actor ELSE NoUrl,
              undone |-> IF act.type = "Undo" THEN act.innerActor ELSE NoUrl,
              verify |-> v.verify.kind, error |-> v.verify.error,
              changed |-> o.db # Current,
              bound |-> Bound(username, act),
              prior |-> PriorEffect(Current, username, act),
              target |-> Target(Current, username, act),
              object |-> IF act.type = "Create" THEN act.object ELSE NoUrl,
              doc |-> IF act.type = "Create" /\ act.object \in DOMAIN world
                      THEN world[act.object] ELSE NoDoc,
              local |-> username \in LocalActors,
              fetched |-> IF act.type = "Create" /\ o.status = 200
                                /\ ~StartsWithBase(act.object)
                          THEN [k \in DOMAIN get_object_calls(act.object, world, MaxChain) |->
                                  Fetched(Current, world,
                                          get_object_calls(act.object, world, MaxChain)[k])]
                          ELSE <<>>,
              fetch |-> IF act.actor # NoUrl /\ act.actor \notin profileCache
                        THEN fetch ELSE "ok",
              before |-> 0, called |-> None]
  /\ UNCHANGED upserted

\* any other method on the inbox
InboxOtherMethod ==
  /\ resp' = Response(405, None)
  /\ sent' = <<>>
  /\ last' = [NoLast EXCEPT !.op = "inbox405"]
  /\ UNCHANGED <<remoteActors, followers, notes, profileCache, upserted>>

\* upsert announcing every call as a new note
UpsertFanOutAlwaysCreate(found) == "Create"

\* the fan-out upsert makes once the note is stored
UpsertFanOut(found) == IF found = "one" THEN "Update" ELSE "Create"

\* upsert inserting a row whether or not one was found
UpsertSaveAlwaysInsert(ns, found, i, note) == Append(ns, note)

\* the Note table after upsert's note.save() or create(): the found row
\* rewritten in place, or a new row
UpsertSave(ns, found, i, note) ==
  IF found = "one" THEN [ns EXCEPT ![i] = note]
  ELSE IF found = "DoesNotExist" THEN Append(ns, note)
  ELSE ns

\* upsert undoing its save when the fan-out raises
UpsertKeptRolledBack(saved, before, exc) == IF exc # None THEN before ELSE saved

\* the Note table when upsert returns or raises: save() and create() have
\* committed before the fan-out starts and no transaction wraps the two
UpsertKept(saved, before, exc) == saved

\* NoteManager.upsert(base_uri, local_actor, content, content_url)
Upsert(local_actor, content, content_url, order, failing) ==
  LET at == NotesAt(notes, content_url)
      found == GetResult(Cardinality(at))
      i == CHOOSE j \in at : TRUE
      note == IF found = "one" THEN [notes[i] EXCEPT !.content = content]
              ELSE NewNote(content_url, local_actor, NoUrl, content, 0)
      saved == UpsertSave(notes, found, i, note)
      author == note.local_actor
      f == send_to_followers(UpsertFanOut(found), note, followers, order, failing)
  IN
  /\ Len(saved) <= MaxNotes
  /\ IF found # "MultipleObjectsReturned" /\ author # None
       THEN order \in FollowerOrders(followers, author)
            /\ failing \subseteq {order[k] : k \in DOMAIN order}
       ELSE order = <<>> /\ failing = {}
  /\ notes' = UpsertKept(saved, notes, f.exc)
  /\ resp' = IF found = "MultipleObjectsReturned" THEN Response(500, found)
             ELSE IF f.exc # None THEN Response(500, f.exc)
             ELSE Response(200, None)
  /\ sent' = IF found = "MultipleObjectsReturned" THEN <<>> ELSE f.sent
  /\ last' = [NoLast EXCEPT !.op = "upsert",
                            !.object = content_url,
                            !.changed = saved # notes,
                            !.before = Cardinality(at),
                            !.called = IF found = "MultipleObjectsReturned" THEN None
                                       ELSE UpsertFanOut(found)]
  /\ upserted' = [upserted EXCEPT ![content_url] = content]
  /\ UNCHANGED <<remoteActors, followers, profileCache>>

\* NoteManager.delete_local(base_uri, content_url)
DeleteLocal(content_url, order, failing) ==
  LET at == NotesAt(notes, content_url)
      found == GetResult(Cardinality(at))
      note == notes[CHOOSE j \in at : TRUE]
      f == send_to_followers("Delete", note, followers, order, failing)
  IN
  /\ IF found = "one" /\ note.local_actor # None
       THEN order \in FollowerOrders(followers, note.local_actor)
            /\ failing \subseteq {order[k] : k \in DOMAIN order}
       ELSE order = <<>> /\ failing = {}
  /\ resp' = CASE found = "MultipleObjectsReturned" -> Response(500, found)
               [] found = "DoesNotExist" -> Response(200, None)
               [] OTHER -> IF f.exc # None THEN Response(500, f.exc) ELSE Response(200, None)
  /\ sent' = IF found = "one" THEN f.sent ELSE <<>>
  /\ last' = [NoLast EXCEPT !.op = "delete_local",
                            !.object = content_url,
                            !.before = Cardinality(at),
                            !.called = IF found = "one" THEN "Delete" ELSE None]
  /\ UNCHANGED <<remoteActors, followers, notes, profileCache, upserted>>

(***************************************************************************)
(* Follow requests handled concurrently: each worker runs the Follow branch *)
(* of the inbox one database statement at a time.                          *)
(***************************************************************************)
VARIABLES workers

Workers == {1, 2}

Idle == [pc |-> "idle", username |-> None, actor |-> NoUrl, status |-> 0, exc |-> None,
         url |-> NoUrl, content |-> ""]

ConcInit == workers = [w \in Workers |-> Idle]

\* the request is read, verified and bound to the inbox owner
ConcReceive(w, u, r) ==
  LET act == Activity("Follow", r, ProfileUrl(u), None, NoUrl)
      v == validate_post_request(profileCache, act, InboxUrl(u),
                                 InboxHeaders(act, InboxUrl(u), "good"), "ok")
  IN
  /\ workers[w].pc = "idle"
  /\ v.status = 0
  /\ BindingStatus(act.object, u) = 0
  /\ profileCache' = v.cache
  /\ workers' = [workers EXCEPT ![w] = [Idle EXCEPT !.pc = "ra_get", !.username = u,
                                                      !.actor = r]]
  /\ UNCHANGED <<remoteActors, followers, notes, resp, sent, last, upserted>>

\* get_or_create_with_url: self.get(url=url)
ConcGetActor(w) ==
  /\ workers[w].pc = "ra_get"
  /\ workers' = [workers EXCEPT
                   ![w].pc = IF GetResult(remoteActors[workers[w].actor]) = "one"
                             THEN "fl_get" ELSE "ra_create"]
  /\ UNCHANGED storeVars

\* get_or_create_with_url: self.create(...), the url column being unique
ConcCreateActor(w) ==
  /\ workers[w].pc = "ra_create"
  /\ IF remoteActors[workers[w].actor] > 0
       THEN /\ workers' = [workers EXCEPT ![w].pc = "idle", ![w].status = 500,
                                          ![w].exc = "IntegrityError"]
            /\ UNCHANGED remoteActors
       ELSE /\ remoteActors' = [remoteActors EXCEPT ![workers[w].actor] = @ + 1]
            /\ workers' = [workers EXCEPT ![w].pc = "fl_get"]
  /\ UNCHANGED <<followers, notes, profileCache, resp, sent, last, upserted>>

\* Follower.objects.get_or_create: the lookup
ConcGetEdge(w) ==
  /\ workers[w].pc = "fl_get"
  /\ workers' = [workers EXCEPT
                   ![w].pc = IF followers[<<workers[w].actor, workers[w].username>>] > 0
                             THEN "accept" ELSE "fl_create"]
  /\ UNCHANGED storeVars

\* Follower.objects.get_or_create: the insert; an IntegrityError of the
\* unique pair is caught and the row read again
ConcCreateEdge(w) ==
  /\ workers[w].pc = "fl_create"
  /\ followers' = follower_get_or_create(Current, workers[w].actor, workers[w].username).fl
  /\ workers' = [workers EXCEPT ![w].pc = "accept"]
  /\ UNCHANGED <<remoteActors, notes, profileCache, resp, sent, last, upserted>>

\* the Accept is posted and the response returned
ConcAccept(w, accept) ==
  /\ workers[w].pc = "accept"
  /\ workers' = [workers EXCEPT ![w].pc = "idle",
                                ![w].status = IF accept = "ok" THEN 200 ELSE 500,
                                ![w].exc = IF accept = "ok" THEN None ELSE "HTTPError"]
  /\ UNCHANGED storeVars

(***************************************************************************)
(* Local upserts run concurrently: each worker runs NoteManager.upsert one  *)
(* database statement at a time.                                           *)
(***************************************************************************)
\* upsert(base_uri, local_actor, content, content_url) is called
NoteUpsertCalled(w, local_actor, content, content_url) ==
  /\ workers[w].pc = "idle"
  /\ workers' = [workers EXCEPT ![w] = [Idle EXCEPT !.pc = "note_get", !.username = local_actor,
                                                      !.url = content_url,
                                                      !.content = content]]
  /\ UNCHANGED storeVars

\* upsert: self.get(content_url=content_url)
NoteGet(w) ==
  /\ workers[w].pc = "note_get"
  /\ workers' =
       CASE GetResult(Cardinality(NotesAt(notes, workers[w].url))) = "one" ->
              [workers EXCEPT ![w].pc = "note_save"]
         [] GetResult(Cardinality(NotesAt(notes, workers[w].url))) = "DoesNotExist" ->
              [workers EXCEPT ![w].pc = "note_create"]
         [] OTHER -> [workers EXCEPT ![w].pc = "idle", ![w].status = 500,
                                     ![w].exc = "MultipleObjectsReturned"]
  /\ UNCHANGED storeVars

\* upsert: note.save() of the row found, then the Update fan-out
NoteSaveFound(w) ==
  /\ workers[w].pc = "note_save"
  /\ \E i \in NotesAt(notes, workers[w].url) :
       \E order \in FollowerOrders(followers, notes[i].local_actor) :
         /\ notes' = [notes EXCEPT ![i].content = workers[w].content]
         /\ sent' = Deliveries("Update", notes[i].local_actor, order, {})
  /\ workers' = [workers EXCEPT ![w].pc = "idle", ![w].status = 200]
  /\ UNCHANGED <<remoteActors, followers, profileCache, resp, last, upserted>>

\* upsert: super().create(...), which no constraint of the Note table
\* refuses, then the Create fan-out
NoteCreate(w) ==
  /\ workers[w].pc = "note_create"
  /\ Len(notes) < MaxNotes
  /\ notes' = Append(notes, NewNote(workers[w].url, workers[w].username, NoUrl,
                                    workers[w].content, 0))
  /\ \E order \in FollowerOrders(followers, workers[w].username) :
       sent' = Deliveries("Create", workers[w].username, order, {})
  /\ workers' = [workers EXCEPT ![w].pc = "idle", ![w].status = 200]
  /\ UNCHANGED <<remoteActors, followers, profileCache, resp, last, upserted>>

(***************************************************************************)
(* The requests and calls the environment makes                            *)
(***************************************************************************)
FollowObjects ==
  {ProfileUrl("alice"), ProfileUrl("bob"), ProfileUrl("ghost"),
   Url(RemoteHost, "/pub/alice"), InboxUrl("alice"), Url(LocalHost, "/nowhere")}

\* what the peer serves for its notes: X1 (possibly a reply, possibly under
\* another id of its own, possibly under the id of a note of this node) and X2
Worlds ==
  {[u \in {X1, X2} |-> IF u = X1 THEN d1 ELSE d2] :
     d1 \in {NoDoc, Doc(X1, R1, "a", NoUrl), Doc(X1, R1, "b", NoUrl),
             Doc(X1, R1, "a", X2), Doc(X1, R1, "a", N1), Doc(X1b, R1, "a", NoUrl),
             Doc(N1, R1, "b", NoUrl),
             Published(Doc(X1, R1, "a", NoUrl), StampMicroseconds)},
     d2 \in {NoDoc, Doc(X2, R2, "a", NoUrl)}}

NoWorld == [u \in {X1, X2} |-> NoDoc]

\* a peer serving a thread under honest ids: X1 may reply to X2, X2 to X3, and
\* any of the three may be gone; no chain is longer than three notes or cyclic
ChainWorlds ==
  {[u \in {X1, X2, X3} |-> IF u = X1 THEN d1 ELSE IF u = X2 THEN d2 ELSE d3] :
     d1 \in {Doc(X1, R1, "a", NoUrl), Doc(X1, R1, "a", X2)},
     d2 \in {NoDoc, Doc(X2, R2, "a", NoUrl), Doc(X2, R2, "a", X3), Doc(X2, R2, "b", X3)},
     d3 \in {NoDoc, Doc(X3, R2, "a", NoUrl)}}
OneNoteWorld == [u \in {X1, X2} |-> IF u = X1 THEN Doc(X1, R1, "a", NoUrl) ELSE NoDoc]

SimpleActs(actor) ==
  {Activity("Follow", actor, o, None, NoUrl) : o \in FollowObjects}
  \cup {Activity(t, actor, o, None, NoUrl) : t \in {"Like", "Announce"}, o \in {N1, X1}}
  \cup {Activity(t, actor, NoUrl, None, NoUrl) : t \in {"Delete", "Move"}}

UndoActs(actor, innerActors) ==
  {Activity("Undo", actor, o, "Follow", ia) : o \in FollowObjects, ia \in innerActors}
  \cup {Activity("Undo", actor, o, t, ia) :
          o \in {N1, X1}, t \in {"Like", "Announce"}, ia \in innerActors}
  \cup {Activity("Undo", actor, NoUrl, "Block", actor)}

\* one activity of every type, for a sender that may or may not be who it says
AuthActs(actor) ==
  {Activity("Follow", actor, ProfileUrl("alice"), None, NoUrl),
   Activity("Like", actor, N1, None, NoUrl),
   Activity("Create", actor, X1, None, NoUrl),
   Activity("Undo", actor, ProfileUrl("alice"), "Follow", actor),
   Activity("Undo", actor, N1, "Like", actor),
   Activity("Delete", actor, NoUrl, None, NoUrl)}

\* an authenticated Create of a note of this node or of a peer, the peer
\* serving its notes in any of the ways of Worlds
InboxCreateAny ==
  \E r \in RemoteActorUrls, o \in {N1, X1, X2, E1} :
    \E world \in Worlds, pfetch \in {"ok", "http404"} :
      InboxPost("alice", Activity("Create", r, o, None, NoUrl),
                "good", "ok", "ok", world, pfetch)

\* an authenticated Create of a note of a thread the peer serves
InboxCreateChain ==
  \E r \in RemoteActorUrls, o \in {X1, X2, X3} :
    \E world \in ChainWorlds :
      InboxPost("alice", Activity("Create", r, o, None, NoUrl),
                "good", "ok", "ok", world, "ok")

\* an authenticated Follow of alice, Like or Announce of her note
InboxEffect ==
  \E r \in RemoteActorUrls, t \in {"Follow", "Like", "Announce"} :
    InboxPost("alice",
              Activity(t, r, IF t = "Follow" THEN ProfileUrl("alice") ELSE N1, None, NoUrl),
              "good", "ok", "ok", NoWorld, "ok")

\* an authenticated Undo whose nested object names any actor as its own
InboxUndoAny ==
  \E r \in RemoteActorUrls, ia \in RemoteActorUrls, t \in {"Follow", "Like", "Announce"} :
    InboxPost("alice",
              Activity("Undo", r, IF t = "Follow" THEN ProfileUrl("alice") ELSE N1, t, ia),
              "good", "ok", "ok", NoWorld, "ok")

\* an authenticated activity of any type but Create, the Undo naming its sender
InboxAuthenticated ==
  \E u \in {"alice", "ghost"}, r \in RemoteActorUrls :
    \E act \in SimpleActs(r) \cup UndoActs(r, {r}), accept \in {"ok", "error"} :
      /\ accept = "ok" \/ act.type = "Follow"
      /\ InboxPost(u, act, "good", "ok", accept, NoWorld, "ok")

\* the hosting application publishes a note of alice
Publish ==
  \E order \in FollowerOrders(followers, "alice") : Upsert("alice", "a", N1, order, {})

\* a request signed in any way, from an actor whose profile may not be served
InboxAny ==
  \E u \in {"alice", "ghost"}, r \in {R1, R3, NoUrl} :
    \E act \in AuthActs(r), auth \in AuthKinds, fetch \in FetchOutcomes :
      /\ auth = "good" \/ fetch = "ok"
      /\ InboxPost(u, act, auth, fetch, "ok", OneNoteWorld, "ok")

\* an authenticated Follow of a local actor
InboxFollowOnly ==
  \E u \in LocalActors, r \in RemoteActorUrls :
    InboxPost(u, Activity("Follow", r, ProfileUrl(u), None, NoUrl),
              "good", "ok", "ok", NoWorld, "ok")

\* an authenticated Delete of a note, sent to a local actor
InboxDeleteOnly ==
  \E u \in LocalActors, r \in RemoteActorUrls, o \in {N1, N2} :
    InboxPost(u, Activity("Delete", r, o, None, NoUrl), "good", "ok", "ok", NoWorld, "ok")

LocalUpsert ==
  \E a \in LocalActors, c \in Contents, u \in {N1, N2} :
    \E order \in UNION {FollowerOrders(followers, b) : b \in LocalActors},
       failing \in SUBSET RemoteActorUrls :
      Upsert(a, c, u, order, failing)

LocalDelete ==
  \E u \in {N1, N2} :
    \E order \in UNION {FollowerOrders(followers, b) : b \in LocalActors},
       failing \in SUBSET RemoteActorUrls :
      DeleteLocal(u, order, failing)

(***************************************************************************)
(* The read-only collection views (views.py, followers and outbox)         *)
(***************************************************************************)
\* rows: how many rows the listed collection of alice holds;
\* view: the last read request and its answer
VARIABLES rows, view

viewVars == <<rows, view>>

\* Paginator(query, 10)
PageSize == 10

\* the most rows the collection grows to
MaxRows == 21

\* the digits of a numeral, after its sign
Unsigned(s) == IF s # <<>> /\ s[1] \in {"-", "+"} THEN Tail(s) ELSE s

\* int(s) does not raise ValueError: an optional sign, then digits
IsInt(s) == Unsigned(s) # <<>> /\ \A i \in DOMAIN Unsigned(s) : Unsigned(s)[i] \in DOMAIN DigitVal

\* int(s), s a string given as its characters
IntOf(s) == IF s[1] = "-" THEN 0 - Magnitude(Unsigned(s)) ELSE Magnitude(Unsigned(s))

\* the query strings of the requests: no page parameter, or page=<characters>
PageArgs ==
  {None, <<"0">>, <<"1">>, <<"2">>, <<"3">>, <<"4">>, <<"-", "1">>, <<"+", "2">>,
   <<"0", "3">>, <<"1", "0">>, <<"a", "b", "c">>, <<>>}

\* Paginator.num_pages: ceil(count / per_page), 1 for an empty collection
\* (allow_empty_first_page)
NumPages(count) == IF count = 0 THEN 1 ELSE (count + PageSize - 1) \div PageSize

\* Page.has_next()
HasNext(count, n) == n < NumPages(count)

\* Page.has_next() one page early
HasNextBeforeLast(count, n) == n + 1 < NumPages(count)

\* Paginator.page(n).object_list: the rows of page n, newest first; row k is
\* the k-th row added
ObjectList(count, n) ==
  LET bottom == (n - 1) * PageSize
      top == IF bottom + PageSize > count THEN count ELSE bottom + PageSize
  IN [i \in 1..(top - bottom) |-> count - bottom - i + 1]

\* build_absolute_uri(reverse('activitypub-<kind>', ...)) and that + '?page=n'
CollectionUrl(kind, username) == [path |-> "/pub/" \o username \o "/" \o kind, page |-> <<>>]
PageUrl(kind, username, n) == [CollectionUrl(kind, username) EXCEPT !.page = <<n>>]

Answer(status, exc, data) == [status |-> status, exc |-> exc, data |-> data]

\* followers(request, username) and outbox(request, username): one body,
\* kind names the view; arg is request.GET.get('page', None)
Collection(kind, username, count, arg) ==
  LET url == CollectionUrl(kind, username)
      data == ("type" :> "OrderedCollection") @@ ("totalItems" :> count) @@ ("id" :> url)
  IN
  IF username \notin LocalActors THEN Answer(404, None, <<>>)
  ELSE IF arg = None THEN Answer(200, None, data @@ ("first" :> PageUrl(kind, username, 1)))
  ELSE IF ~IsInt(arg) THEN Answer(500, "ValueError", <<>>)
  ELSE LET page_num == IntOf(arg) IN
    IF 1 <= page_num /\ page_num <= NumPages(count)
      THEN Answer(200, None,
             (IF HasNext(count, page_num)
                THEN "next" :> PageUrl(kind, username, page_num + 1) ELSE <<>>)
             @@ ("id" :> PageUrl(kind, username, page_num))
             @@ ("type" :> "OrderedCollectionPage")
             @@ ("orderedItems" :> ObjectList(count, page_num))
             @@ ("partOf" :> url)
             @@ data)
    ELSE Answer(404, None, "error" :> <<"invalid page number", page_num>>)

NoView == [op |-> "init", kind |-> None, username |-> None, page |-> None, count |-> 0,
           answer |-> Answer(0, None, <<>>)]

ViewInit == rows = 0 /\ view = NoView

\* a follower or a note of alice is stored
AddRow ==
  /\ rows < MaxRows
  /\ rows' = rows + 1
  /\ UNCHANGED view

\* GET of the followers or the outbox collection
GetCollection(kind, username, arg) ==
  \E count \in {IF username = "alice" THEN rows ELSE 0} :
  /\ view' = [op |-> "collection", kind |-> kind, username |-> username, page |-> arg,
              count |-> count, answer |-> Collection(kind, username, count, arg)]
  /\ UNCHANGED rows

(***************************************************************************)
(* The display depth of a note (models.py Note.max_depth, pub_extras.py)   *)
(***************************************************************************)
\* the deepest reply chain considered
MaxDepth == 12

\* the clamp of Note.max_depth
DepthCap == 5

Min(a, b) == IF a < b THEN a ELSE b

\* a Note instance at depth d of its reply tree (roots at depth 0): tree_depth
\* is an attribute only of instances a with_tree_fields() query loaded
NoteInstance(d, annotated) == IF annotated THEN "tree_depth" :> d ELSE <<>>

\* getattr(obj, name, default)
GetAttr(obj, name, default) == IF name \in DOMAIN obj THEN obj[name] ELSE default

\* Note.max_depth without the clamp
NoteMaxDepthUnclamped(note) == GetAttr(note, "tree_depth", 1)

\* Note.max_depth
NoteMaxDepth(note) == Min(GetAttr(note, "tree_depth", 1), DepthCap)

\* template values: an integer, a string (its characters) or None
IntVal(n) == [kind |-> "int", v |-> n, s |-> <<>>]
StrVal(chars) == [kind |-> "str", v |-> 0, s |-> chars]
NoneVal == [kind |-> "none", v |-> 0, s |-> <<>>]

\* int(x) raises ValueError or TypeError
IntRaises(x) == x.kind = "none" \/ (x.kind = "str" /\ ~IsInt(x.s))

\* int(x)
ToInt(x) == IF x.kind = "int" THEN x.v ELSE IntOf(x.s)

\* the template filter value|max_depth:num
max_depth(value, num) ==
  IF IntRaises(num) \/ IntRaises(value) THEN value
  ELSE IntVal(Min(ToInt(num), ToInt(value)))

FilterValues == {IntVal(d) : d \in 0..MaxDepth} \cup {StrVal(<<"7">>), StrVal(<<"a">>), NoneVal}
FilterNums == {IntVal(5), IntVal(3), StrVal(<<"5">>), StrVal(<<"x">>), NoneVal}

\* a template reads note.max_depth of a note at depth d
ReadMaxDepth(d, annotated) ==
  /\ view' = [op |-> "max_depth", depth |-> d, annotated |-> annotated,
              answer |-> NoteMaxDepth(NoteInstance(d, annotated))]
  /\ UNCHANGED rows

\* a template applies the max_depth filter
FilterMaxDepth(value, num) ==
  /\ view' = [op |-> "filter", value |-> value, num |-> num, answer |-> max_depth(value, num)]
  /\ UNCHANGED rows

(***************************************************************************)
(* WebFinger discovery (webfinger.py finger) and resolving a handle        *)
(* (models.py RemoteActorManager.get_or_create_with_username_domain)       *)
(***************************************************************************)
\* the handles resolved: r1@remote and r2@remote; the profile of a handle
\* lives at /users/<username> of its domain, as R1 and R2 do
HandleNames == {"r1", "r2"}
HandleUrl(username, domain) == Url(domain, "/users/" \o username)

Link(rel, type, href) == [rel |-> rel, type |-> type, href |-> href]
SelfLink(url) == Link("self", "application/activity+json", url)
PageLink(url) == Link("http://webfinger.net/rel/profile-page", "text/html", url)

\* the links arrays a discovery document of the handle's domain may carry
LinkLists(url) ==
  {<<>>, <<SelfLink(url)>>, <<PageLink(url)>>, <<PageLink(url), SelfLink(url)>>,
   <<Link("self", "application/ld+json", url)>>}

\* what GET /.well-known/webfinger ends in: a JSON document, with or without
\* a links member, or a failure of the request
WebfingerAnswers(url) ==
  {[kind |-> "ok", doc |-> "links" :> l] : l \in LinkLists(url)}
  \cup {[kind |-> "ok", doc |-> "subject" :> url]}
  \cup {[kind |-> k, doc |-> <<>>] : k \in {"http404", "noresponse", "badjson"}}

\* the links of a discovery document with rel self and the ActivityPub type
ProfileLinks(doc) ==
  LET links == GetAttr(doc, "links", <<>>)
  IN {i \in DOMAIN links :
        links[i].rel = "self" /\ links[i].type = "application/activity+json"}

\* finger(username, domain): answer is the discovery response, pfetch the
\* outcome of an uncached profile fetch.  A Python None is the empty tuple,
\* a value v the tuple <<v>>.
finger(cache, answer, pfetch) ==
  IF answer.kind # "ok"
    THEN [exc |-> "WebfingerException", cache |-> cache, data |-> <<>>]
  ELSE IF ProfileLinks(answer.doc) = {}
    THEN [exc |-> None, cache |-> cache,
          data |-> ("webfinger" :> answer.doc) @@ ("profile" :> <<>>)]
  ELSE
    LET first == CHOOSE i \in ProfileLinks(answer.doc) :
                   \A j \in ProfileLinks(answer.doc) : i <= j
        href == answer.doc["links"][first].href
        f == fetch_remote_profile(cache, href, pfetch)
    IN IF f.exc # None THEN [exc |-> f.exc, cache |-> f.cache, data |-> <<>>]
       ELSE [exc |-> None, cache |-> f.cache,
             data |-> ("webfinger" :> answer.doc) @@ ("profile" :> <<ProfileDoc(href)>>)]

Resolved(db, cache, exc, actor) == [db |-> db, cache |-> cache, exc |-> exc, actor |-> actor]

\* get_or_create_with_username_domain reading the profile whatever it is
ResolveFingeredUnguarded(db, cache, data) ==
  LET url == data["profile"][1].id IN
  CASE db.ra[url] = 1 -> Resolved(db, cache, None, <<url>>)
    [] db.ra[url] > 1 -> Resolved(db, cache, "MultipleObjectsReturned", <<>>)
    [] OTHER -> Resolved([db EXCEPT !.ra[url] = 1], cache, None, <<url>>)

\* get_or_create_with_username_domain once finger has returned data
ResolveFingered(db, cache, data) ==
  IF "profile" \notin DOMAIN data THEN Resolved(db, cache, None, <<>>)
  ELSE IF data["profile"] = <<>> THEN Resolved(db, cache, "AttributeError", <<>>)
  ELSE ResolveFingeredUnguarded(db, cache, data)

\* RemoteActorManager.get_or_create_with_username_domain(username, domain)
get_or_create_with_username_domain(db, cache, username, domain, answer, pfetch) ==
  LET stored == db.ra[HandleUrl(username, domain)] IN
  CASE stored = 1 -> Resolved(db, cache, None, <<HandleUrl(username, domain)>>)
    [] stored > 1 -> Resolved(db, cache, "MultipleObjectsReturned", <<>>)
    [] OTHER ->
         LET f == finger(cache, answer, pfetch) IN
         IF f.exc # None THEN Resolved(db, f.cache, f.exc, <<>>)
         ELSE ResolveFingered(db, f.cache, f.data)

\* a caller runs finger
Finger(username, answer, pfetch) ==
  \E f \in {finger(profileCache, answer, pfetch)} :
  /\ profileCache' = f.cache
  /\ view' = [op |-> "finger", username |-> username, answer |-> answer,
              nolink |-> answer.kind = "ok" /\ ProfileLinks(answer.doc) = {},
              pfetch |-> pfetch,
              cached |-> HandleUrl(username, RemoteHost) \in profileCache,
              exc |-> f.exc, data |-> f.data]
  /\ UNCHANGED <<rows, remoteActors, followers, notes, resp, sent, last, upserted>>

\* a caller runs fetch_remote_profile(url)
FetchProfile(url, outcome) ==
  \E f \in {fetch_remote_profile(profileCache, url, outcome)} :
  /\ profileCache' = f.cache
  /\ view' = [op |-> "fetch", url |-> url, pfetch |-> outcome,
              cached |-> url \in profileCache, exc |-> f.exc]
  /\ UNCHANGED <<rows, remoteActors, followers, notes, resp, sent, last, upserted>>

\* a caller resolves a profile URL: RemoteActor.objects.get_or_create_with_url(url)
ResolveUrl(url, outcome) ==
  \E o \in {get_or_create_with_url(Current, profileCache, url, outcome)} :
  /\ remoteActors' = o.db.ra
  /\ profileCache' = o.cache
  /\ view' = [op |-> "resolve_url", url |-> url, pfetch |-> outcome,
              stored |-> remoteActors[url], cached |-> url \in profileCache,
              created |-> o.db # Current, fetched |-> o.cache # profileCache,
              exc |-> o.exc]
  /\ UNCHANGED <<rows, followers, notes, resp, sent, last, upserted>>

\* the process restarts: the lru_cache of fetch_remote_profile starts empty
Restart ==
  /\ profileCache # {}
  /\ profileCache' = {}
  /\ UNCHANGED <<rows, view, remoteActors, followers, notes, resp, sent, last, upserted>>

\* a caller resolves the handle username@remote
Resolve(username, answer, pfetch) ==
  \E o \in {get_or_create_with_username_domain(Current, profileCache, username, RemoteHost,
                                               answer, pfetch)} :
  /\ remoteActors' = o.db.ra
  /\ profileCache' = o.cache
  /\ view' = [op |-> "resolve", username |-> username, answer |-> answer,
              nolink |-> answer.kind = "ok" /\ ProfileLinks(answer.doc) = {},
              stored |-> remoteActors[HandleUrl(username, RemoteHost)],
              created |-> o.db # Current,
              exc |-> o.exc, actor |-> o.actor]
  /\ UNCHANGED <<rows, followers, notes, resp, sent, last, upserted>>

(***************************************************************************)
(* Timestamps parsed                                                       *)
(***************************************************************************)
\* a caller runs utils.dates.parse_datetime(text)
ParseUtils(text) ==
  /\ view' = [op |-> "utils.parse_datetime", text |-> text, answer |-> parse_datetime(text)]
  /\ UNCHANGED rows

\* a caller runs models.parse_datetime(text), as upsert_remote does
ParseModels(text) ==
  /\ view' = [op |-> "models.parse_datetime", text |-> text,
              answer |-> models_parse_datetime(text)]
  /\ UNCHANGED rows

(***************************************************************************)
(* Specifications                                                          *)
(***************************************************************************)
vars == <<sigVars, storeVars, workers, viewVars>>

Init == SigInit /\ StoreInit /\ ConcInit /\ ViewInit

\* the inbox serving authenticated requests, one at a time
Next ==
  \/ InboxAuthenticated /\ UNCHANGED <<sigVars, workers, viewVars>>
  \/ InboxOtherMethod /\ UNCHANGED <<sigVars, workers, viewVars>>
  \/ Publish /\ UNCHANGED <<sigVars, workers, viewVars>>

Spec == Init /\ [][Next]_vars

\* signing and verifying alone
SigNext ==
  \/ \E s \in Signers, u \in {InboxUrl("alice"), ProfileDoc(R1).inbox}, b \in Bodies :
       SigSignedPost(s, u, b) /\ UNCHANGED <<storeVars, workers, viewVars>>
  \/ \E s \in Signers, m \in {"post", "get"}, b \in Bodies, f \in FieldLists,
        p \in {"SHA-", "sha-"} :
       SigPeerSign(s, m, InboxUrl("alice"), b, f, p) /\ UNCHANGED <<storeVars, workers, viewVars>>
  \/ \E b \in Bodies : SigTamperBody(b) /\ UNCHANGED <<storeVars, workers, viewVars>>
  \/ \E h \in {"digest", "date", "signature"} :
       SigDropHeader(h) /\ UNCHANGED <<storeVars, workers, viewVars>>
  \/ \E k \in MangleKinds : SigMangle(k) /\ UNCHANGED <<storeVars, workers, viewVars>>
  \/ \E s \in Signers : SigSetKeyId(s) /\ UNCHANGED <<storeVars, workers, viewVars>>
  \/ \E s \in Signers : SigValidate(s) /\ UNCHANGED <<storeVars, workers, viewVars>>

SpecSig == Init /\ [][SigNext]_vars

\* the inbox serving requests signed in any way
AuthNext ==
  \/ InboxAny /\ UNCHANGED <<sigVars, workers, viewVars>>
  \/ Publish /\ UNCHANGED <<sigVars, workers, viewVars>>

SpecAuth == Init /\ [][AuthNext]_vars

\* the hosting application upserting and deleting its notes, between follows
LocalNext ==
  \/ InboxFollowOnly /\ UNCHANGED <<sigVars, workers, viewVars>>
  \/ LocalUpsert /\ UNCHANGED <<sigVars, workers, viewVars>>
  \/ LocalDelete /\ UNCHANGED <<sigVars, workers, viewVars>>
  \/ InboxDeleteOnly /\ UNCHANGED <<sigVars, workers, viewVars>>

SpecLocal == Init /\ [][LocalNext]_vars

\* the inbox serving Create activities, the node publishing a note of its own
CreateNext ==
  \/ InboxCreateAny /\ UNCHANGED <<sigVars, workers, viewVars>>
  \/ Publish /\ UNCHANGED <<sigVars, workers, viewVars>>

SpecCreate == Init /\ [][CreateNext]_vars

\* an authenticated Create of the peer's note X1, served with either body
InboxCreateRemote ==
  \E r \in RemoteActorUrls, c \in Contents :
    InboxPost("alice", Activity("Create", r, X1, None, NoUrl), "good", "ok", "ok",
              [u \in {X1} |-> Doc(X1, R1, c, NoUrl)], "ok")

\* the hosting application calls upsert or delete_local with the content URL
\* of a note of its own or of the peer's note
UpsertAnyUrl ==
  \E c \in Contents, u \in {N1, X1} :
    \E order \in FollowerOrders(followers, "alice") \cup {<<>>},
       failing \in SUBSET RemoteActorUrls :
      Upsert("alice", c, u, order, failing)

DeleteAnyUrl ==
  \E u \in {N1, X1} :
    \E order \in FollowerOrders(followers, "alice") \cup {<<>>},
       failing \in SUBSET RemoteActorUrls :
      DeleteLocal(u, order, failing)

\* an authenticated Follow of alice
InboxFollowAlice ==
  \E r \in RemoteActorUrls :
    InboxPost("alice", Activity("Follow", r, ProfileUrl("alice"), None, NoUrl),
              "good", "ok", "ok", NoWorld, "ok")

\* local calls on every stored note, between follows and inbound Creates
FrameNext ==
  \/ InboxFollowAlice /\ UNCHANGED <<sigVars, workers, viewVars>>
  \/ InboxCreateRemote /\ UNCHANGED <<sigVars, workers, viewVars>>
  \/ UpsertAnyUrl /\ UNCHANGED <<sigVars, workers, viewVars>>
  \/ DeleteAnyUrl /\ UNCHANGED <<sigVars, workers, viewVars>>

SpecFrame == Init /\ [][FrameNext]_vars

\* the inbox serving follows, likes and announces and the Undo of any of them
UndoNext ==
  \/ InboxEffect /\ UNCHANGED <<sigVars, workers, viewVars>>
  \/ InboxUndoAny /\ UNCHANGED <<sigVars, workers, viewVars>>
  \/ Publish /\ UNCHANGED <<sigVars, workers, viewVars>>

SpecUndo == Init /\ [][UndoNext]_vars

\* the inbox serving Create activities for the notes of one remote thread
ChainNext ==
  \/ InboxCreateChain /\ UNCHANGED <<sigVars, workers, viewVars>>

SpecChain == Init /\ [][ChainNext]_vars

\* two workers serving Follow requests at the same time
ConcNext ==
  \/ \E w \in Workers, u \in LocalActors, r \in RemoteActorUrls :
       ConcReceive(w, u, r) /\ UNCHANGED <<sigVars, viewVars>>
  \/ \E w \in Workers : ConcGetActor(w) /\ UNCHANGED <<sigVars, viewVars>>
  \/ \E w \in Workers : ConcCreateActor(w) /\ UNCHANGED <<sigVars, viewVars>>
  \/ \E w \in Workers : ConcGetEdge(w) /\ UNCHANGED <<sigVars, viewVars>>
  \/ \E w \in Workers : ConcCreateEdge(w) /\ UNCHANGED <<sigVars, viewVars>>
  \/ \E w \in Workers, accept \in {"ok", "error"} : ConcAccept(w, accept) /\ UNCHANGED <<sigVars, viewVars>>

SpecConc == Init /\ [][ConcNext]_vars

\* two workers running local upserts at the same time
NoteConcNext ==
  \/ \E w \in Workers, a \in LocalActors, c \in Contents, u \in {N1, N2} :
       NoteUpsertCalled(w, a, c, u) /\ UNCHANGED <<sigVars, viewVars>>
  \/ \E w \in Workers : NoteGet(w) /\ UNCHANGED <<sigVars, viewVars>>
  \/ \E w \in Workers : NoteSaveFound(w) /\ UNCHANGED <<sigVars, viewVars>>
  \/ \E w \in Workers : NoteCreate(w) /\ UNCHANGED <<sigVars, viewVars>>

SpecNoteConc == Init /\ [][NoteConcNext]_vars

\* timestamps parsed by the two parse_datetime functions
DatesNext ==
  \/ \E text \in StampTexts : ParseUtils(text) /\ UNCHANGED <<sigVars, storeVars, workers>>
  \/ \E text \in StampTexts : ParseModels(text) /\ UNCHANGED <<sigVars, storeVars, workers>>

SpecDates == Init /\ [][DatesNext]_vars

\* the collection views read while the collection grows
PagesNext ==
  \/ AddRow /\ UNCHANGED <<sigVars, storeVars, workers>>
  \/ \E kind \in {"followers", "outbox"}, u \in {"alice", "bob", "ghost"}, arg \in PageArgs :
       GetCollection(kind, u, arg) /\ UNCHANGED <<sigVars, storeVars, workers>>

SpecPages == Init /\ [][PagesNext]_vars

\* templates rendering the depth of notes
DepthNext ==
  \/ \E d \in 0..MaxDepth, annotated \in BOOLEAN :
       ReadMaxDepth(d, annotated) /\ UNCHANGED <<sigVars, storeVars, workers>>
  \/ \E value \in FilterValues, num \in FilterNums :
       FilterMaxDepth(value, num) /\ UNCHANGED <<sigVars, storeVars, workers>>

SpecDepth == Init /\ [][DepthNext]_vars

\* handles fingered and resolved
FingerNext ==
  \/ \E u \in HandleNames, pfetch \in FetchOutcomes :
       \E answer \in WebfingerAnswers(HandleUrl(u, RemoteHost)) :
         Finger(u, answer, pfetch) /\ UNCHANGED <<sigVars, workers>>
  \/ \E u \in HandleNames, pfetch \in FetchOutcomes :
       \E answer \in WebfingerAnswers(HandleUrl(u, RemoteHost)) :
         Resolve(u, answer, pfetch) /\ UNCHANGED <<sigVars, workers>>

  \/ \E url \in RemoteActorUrls, outcome \in FetchOutcomes :
       FetchProfile(url, outcome) /\ UNCHANGED <<sigVars, workers>>
  \/ \E url \in RemoteActorUrls, outcome \in FetchOutcomes :
       ResolveUrl(url, outcome) /\ UNCHANGED <<sigVars, workers>>
  \/ Restart /\ UNCHANGED <<sigVars, workers>>

SpecFinger == Init /\ [][FingerNext]_vars

(***************************************************************************)
(* Properties                                                              *)
(***************************************************************************)
\* the actor that holds key k, as its profile names it
KeyOwner(k) == UrlStr((CHOOSE s \in Signers : s.key = k).url)

\* the verifier was run on the latest inbox request and did not return success
VerifierRefused == last.op = "inbox" /\ last.verify \in {"fail", "raise"}

\* C1 (first half): a POST to the inbox for which the verifier did not
\* return success changes no RemoteActor, Follower edge, Note or liked-by /
\* announced-by set and sends nothing.
C1_NoEffectUnlessVerified ==
  (last.op = "inbox" /\ last.verify # "success") => (~last.changed /\ sent = <<>>)

\* C1: a Follow in the name of a known actor, signed with another key, was
\* refused with 401
C1_RefusedWithoutEffect ==
  /\ last.op = "inbox" /\ last.type = "Follow"
  /\ last.verify = "fail" /\ last.error = "Invalid signature"
  /\ resp.status = 401
  /\ remoteActors[R1] = 1

\* C1: a POST to the inbox has no effect unless the verifier returned
\* success, and a request the verifier did not return success for is
\* answered 401 with the state unchanged.
C1_UnverifiedIs401 ==
  /\ C1_NoEffectUnlessVerified
  /\ VerifierRefused => (resp.status = 401 /\ ~last.changed)

\* C2: the headers signed_post produced, presented unmodified with the same
\* method, URL and body to a checker built from the signer's public key and
\* key id, give success carrying the identity of the owner of the key.
C2_SignThenVerify ==
  (/\ sigResult # NoResult
   /\ sigHist.clean
   /\ sigChecker.public_key = sigHist.signer
   /\ sigChecker.key_id = sigHist.keyId)
  => sigResult = Success(KeyOwner(sigHist.signer))

\* C2: an unmodified request of signed_post was verified
C2_Verified ==
  /\ sigHist.clean
  /\ sigResult.kind = "success"
  /\ sigReq.body = "b2"
  /\ sigReq.url = ProfileDoc(R1).inbox

\* C3: verifying a signed POST whose body is not the body its digest header
\* was computed over returns the failure variant with the digest-mismatch
\* reason.
C3_TamperedBodyIsDigestMismatch ==
  (/\ sigResult # NoResult
   /\ sigReq.method = "post"
   /\ "signature" \in DOMAIN sigReq.headers
   /\ sigHist.digestBody # None
   /\ sigHist.digestBody # sigReq.body)
  => sigResult = Fail("Digest mismatch")

\* C3: only the body was replaced, and the checker is the signer's own
C3_ValidSignatureStaleDigest ==
  /\ sigResult = Fail("Digest mismatch")
  /\ sigHist.digestBody # sigReq.body
  /\ sigHist.edits = 1
  /\ sigChecker.public_key = sigHist.signer
  /\ sigChecker.key_id = sigHist.keyId

\* C4: verifying a request whose Signature header declares a keyId other
\* than the key id of the resolved public-key document never returns success.
C4_KeyIdMismatchNeverSucceeds ==
  (/\ sigResult # NoResult
   /\ sigHist.keyId # None
   /\ sigHist.keyId # sigChecker.key_id)
  => sigResult.kind # "success"

\* C4: the signature bytes are those of the resolved actor's key, the
\* declared keyId is not its key id
C4_ValidBytesWrongKeyId ==
  /\ sigResult = Fail("Key ID mismatch")
  /\ sigChecker.public_key = sigHist.signer
  /\ sigHist.keyId # sigChecker.key_id

\* C5: validate never lets an exception escape: whatever the request, its
\* result is the success or the failure variant.
C5_ValidateNeverRaises == sigResult.kind # "raise"

\* C6: after any sequence of local upserts, every content URL that was
\* upserted has exactly one stored Note, whose body is the body of the most
\* recent upsert of that URL.
C6_OneNotePerUrl ==
  \A u \in NoteUrls :
    upserted[u] # None =>
      /\ Cardinality(NotesAt(notes, u)) = 1
      /\ \A i \in NotesAt(notes, u) : notes[i].content = upserted[u]

\* C6: both URLs were upserted, N1 again with another body
C6_UpsertedTwice ==
  /\ last.op = "upsert" /\ last.before = 1
  /\ upserted[N1] = "b" /\ upserted[N2] = "a"
  /\ Len(notes) = 2

\* C7: a local upsert makes the Create fan-out exactly when no Note with the
\* content URL was stored before the call and the Update fan-out exactly
\* when one was; it makes one of the two, and every delivery is of that type.
C7_CreateXorUpdate ==
  last.op = "upsert" =>
    /\ last.called \in {"Create", "Update"}
    /\ last.called = "Create" <=> last.before = 0
    /\ last.called = "Update" <=> last.before = 1
    /\ \A i \in DOMAIN sent : sent[i].type = last.called

\* C7: an upsert of a stored note delivered its Update to two followers
C7_UpdateDelivered ==
  /\ last.op = "upsert" /\ last.before = 1 /\ last.called = "Update"
  /\ Len(sent) = 2 /\ sent[1].type = "Update" /\ sent[2].ok

\* C8 (first half): there is at most one Follower edge per (remote actor,
\* local actor) pair, whatever the interleaving of the Follow requests.
C8_AtMostOneEdge == \A p \in FollowerPairs : followers[p] <= 1

\* C8: both workers served a Follow of alice by R1 and acknowledged it
C8_DuplicateFollowServed ==
  /\ workers[1] = [Idle EXCEPT !.username = "alice", !.actor = R1, !.status = 200]
  /\ workers[2] = workers[1]
  /\ followers[<<R1, "alice">>] = 1

\* C8: under any interleaving of Follow requests there is at most one
\* Follower edge per pair and no Follow is rejected for being a duplicate:
\* every Follow whose Accept was delivered is acknowledged.
C8_OneEdgeFollowAcknowledged ==
  /\ C8_AtMostOneEdge
  /\ \A w \in Workers : workers[w].exc # "IntegrityError"

\* C9: an Undo of a Follow, Like or Announce whose effect does not exist for
\* the actor that sent it is answered with an error, not with {"ok": true}.
C9_UndoWithoutEffectRejected ==
  (last.op = "inbox" /\ last.verify = "success" /\ last.prior = "no")
  => resp.status # 200

\* C10: a Follow or Undo(Follow) whose object is not the profile of the local
\* actor that owns the inbox is answered 400, and no RemoteActor or Follower
\* edge is created or removed and nothing is sent.
C10_UnboundFollowIs400 ==
  (last.op = "inbox" /\ last.verify = "success" /\ last.bound = "no")
  => (resp.status = 400 /\ ~last.changed /\ sent = <<>>)

\* C11: a Follow that passed verification and the binding check stores the
\* Follower edge and attempts the Accept exactly once; when the delivery
\* fails the request ends in an error and the edge is still stored.
C11_EdgeKeptAcceptOnce ==
  (last.op = "inbox" /\ last.type = "Follow" /\ last.verify = "success"
   /\ last.bound = "yes")
  => /\ Len(sent) = 1
     /\ sent[1].type = "Accept"
     /\ \A r \in RemoteActorUrls, u \in LocalActors :
          (sent[1].from = u /\ sent[1].to = ProfileDoc(r).inbox) => followers[<<r, u>>] = 1
     /\ resp = IF sent[1].ok THEN Response(200, None) ELSE Response(500, "HTTPError")

\* C11: the Accept of a new Follow was not delivered; the edge it stored remains
C11_AcceptFailedEdgeStored ==
  /\ last.op = "inbox" /\ last.type = "Follow" /\ last.changed
  /\ resp = Response(500, "HTTPError")
  /\ Len(sent) = 1 /\ ~sent[1].ok
  /\ followers[<<R1, "alice">>] = 1

\* C12: an accepted Like (Announce) leaves its sender with exactly one row
\* in the liked-by (announced-by) relation of one Note, however many times it
\* was sent before, and changes nothing else of that Note, no other Note and
\* no Follower edge.
C12_ReactionIdempotent ==
  [][(last'.op = "inbox" /\ last'.type \in {"Like", "Announce"} /\ resp'.status = 200)
     => /\ followers' = followers
        /\ \E i \in DOMAIN notes, a \in RemoteActorUrls :
             /\ remoteActors' = [remoteActors EXCEPT ![a] = 1]
             /\ notes' = IF last'.type = "Like"
                         THEN [notes EXCEPT ![i].likes = [@ EXCEPT ![a] = 1]]
                         ELSE [notes EXCEPT ![i].announces = [@ EXCEPT ![a] = 1]]]_vars

\* C12: a Like repeated by an actor that had already liked the note
C12_LikeRepeated ==
  /\ last.op = "inbox" /\ last.type = "Like" /\ resp.status = 200
  /\ ~last.changed
  /\ Len(notes) = 1 /\ notes[1].likes[R1] = 1 /\ notes[1].announces[R2] = 1

\* C13: an authenticated Like or Announce whose object is not the content
\* URL of a stored Note is answered 404 and stores nothing: no RemoteActor,
\* no reaction, and nothing is sent.
C13_UnknownNoteIs404 ==
  (last.op = "inbox" /\ last.verify = "success" /\ last.target = "absent")
  => (resp = Response(404, None) /\ ~last.changed /\ sent = <<>>)

\* C13: an Announce of an unknown note by an actor that is not stored
C13_UnknownNoteAnnounced ==
  /\ last.op = "inbox" /\ last.type = "Announce" /\ last.target = "absent"
  /\ resp.status = 404
  /\ remoteActors[R1] = 0 /\ remoteActors[R2] = 0
  /\ Len(notes) = 1

\* C14: an authenticated Create whose object id is on the host of this node
\* is acknowledged and changes nothing, and an acknowledged Create whose
\* object id is on another host has stored a Note under that id.
C14_CreateOwnNoOpElseUpsert ==
  (last.op = "inbox" /\ last.type = "Create" /\ last.verify = "success")
  => /\ last.target = "own" => (resp = Response(200, None) /\ ~last.changed)
     /\ (last.target = "foreign" /\ resp.status = 200)
          => NotesAt(notes, last.object) # {}

\* the activity types and the nested types of an Undo the dispatcher handles
KnownTypes == {"Follow", "Like", "Announce", "Create", "Undo", "Delete"}
KnownUndoTypes == {"Follow", "Like", "Announce"}

\* C15: an authenticated activity of an unknown type, and an Undo of an
\* unknown nested type, sent to the inbox of an existing local actor is
\* answered 400 with an error that names the type, and changes nothing.
C15_UnknownTypeIs400 ==
  (last.op = "inbox" /\ last.verify = "success" /\ last.local)
  => /\ last.type \notin KnownTypes
          => /\ resp.status = 400 /\ resp.exc = None
             /\ resp.error = <<"unsupported activity type: ", last.type>>
             /\ ~last.changed /\ sent = <<>>
     /\ (last.type = "Undo" /\ last.inner \notin KnownUndoTypes)
          => /\ resp.status = 400 /\ resp.exc = None
             /\ resp.error = <<"unsupported undo type: ", last.inner>>
             /\ ~last.changed /\ sent = <<>>

\* C15: a Move was sent to alice, who has a follower and a note
C15_MoveRejected ==
  /\ last.op = "inbox" /\ last.type = "Move" /\ last.local
  /\ resp.status = 400
  /\ followers[<<R2, "alice">>] = 1 /\ Len(notes) = 1

\* the operation just performed is an authenticated inbound Delete
InboundDelete(l) == l.op = "inbox" /\ l.type = "Delete" /\ l.verify = "success" /\ l.local

\* C16: neither an authenticated inbound Delete nor delete_local removes or
\* modifies a stored Note, RemoteActor or Follower edge; the inbound Delete
\* is acknowledged and nothing else, delete_local sends Delete deliveries
\* when a note has the content URL and does nothing at all when none has.
C16_DeleteKeepsStore ==
  /\ [](/\ InboundDelete(last) => resp = Response(200, None) /\ sent = <<>>
        /\ last.op = "delete_local"
             => /\ \A i \in DOMAIN sent : sent[i].type = "Delete"
                /\ last.before = 0 => resp = Response(200, None) /\ sent = <<>>
                /\ last.called = (IF last.before = 0 THEN None ELSE "Delete"))
  /\ [][(InboundDelete(last') \/ last'.op = "delete_local")
          => UNCHANGED <<remoteActors, followers, notes>>]_vars

\* C16: a Delete naming alice's stored note arrived while she has a follower
C16_DeleteOfStoredNote ==
  /\ InboundDelete(last) /\ resp.status = 200
  /\ NotesAt(notes, N1) # {}
  /\ followers[<<R1, "alice">>] = 1

\* the local actor whose note the last upsert or delete_local announced
FanOutAuthor == notes[CHOOSE j \in NotesAt(notes, last.object) : TRUE].local_actor

\* the inbox endpoints in the cached profiles of the followers of a local actor
FollowerInboxes(local) ==
  {ProfileDoc(r).inbox : r \in {q \in RemoteActorUrls : followers[<<q, local>>] > 0}}

\* C17: a Create, Update or Delete fan-out delivers to inbox endpoints of
\* current followers of the note's author, to each at most once; when every
\* response is a success each follower got exactly one delivery; nothing is
\* attempted after the first failed delivery, and the failure reaches the
\* caller.
C17_FanOutPerFollowerUntilFailure ==
  (last.op \in {"upsert", "delete_local"} /\ last.called # None)
  => /\ \A i \in DOMAIN sent :
          /\ sent[i].type = last.called
          /\ sent[i].from = FanOutAuthor
          /\ sent[i].to \in FollowerInboxes(FanOutAuthor)
          /\ \A j \in DOMAIN sent : sent[i].to = sent[j].to => i = j
          /\ i < Len(sent) => sent[i].ok
     /\ IF AllOk(sent)
          THEN /\ {sent[i].to : i \in DOMAIN sent} = FollowerInboxes(FanOutAuthor)
               /\ resp = Response(200, None)
          ELSE resp = Response(500, "HTTPError")

\* C17: the first of alice's two followers refused an Update delivery
C17_FirstDeliveryFailed ==
  /\ last.op = "upsert" /\ last.called = "Update"
  /\ Cardinality(FollowerInboxes(FanOutAuthor)) = 2
  /\ Len(sent) = 1 /\ ~sent[1].ok

\* the answer is for a request with a page parameter that int() reads
PageRead == view.op = "collection" /\ view.username \in LocalActors
            /\ view.page # None /\ IsInt(view.page)

\* the rows the collection held when the request was served
ViewedCount == view.count

\* C18: with N pages, an integer page outside 1..N is answered 404; no page
\* parameter gives first and totalItems and no orderedItems; a page in 1..N
\* gives an OrderedCollectionPage with orderedItems and partOf, and with
\* next exactly when page < N.
C18_PagesOfCollection ==
  (view.op = "collection" /\ view.username \in LocalActors)
  => LET N == NumPages(ViewedCount)
         data == view.answer.data
     IN /\ view.page = None
             => /\ view.answer.status = 200
                /\ {"first", "totalItems"} \subseteq DOMAIN data
                /\ "orderedItems" \notin DOMAIN data
                /\ data["totalItems"] = ViewedCount
        /\ (PageRead /\ (IntOf(view.page) < 1 \/ IntOf(view.page) > N))
             => view.answer.status = 404 /\ "orderedItems" \notin DOMAIN data
        /\ (PageRead /\ IntOf(view.page) \in 1..N)
             => /\ view.answer.status = 200
                /\ data["type"] = "OrderedCollectionPage"
                /\ {"orderedItems", "partOf"} \subseteq DOMAIN data
                /\ Len(data["orderedItems"]) =
                     (IF IntOf(view.page) < N THEN PageSize
                      ELSE ViewedCount - (N - 1) * PageSize)
                /\ ("next" \in DOMAIN data) <=> (IntOf(view.page) < N)

\* C18: the second of three pages was read
C18_MiddlePageRead ==
  /\ PageRead /\ view.count = 21 /\ view.username = "alice"
  /\ IntOf(view.page) = 2 /\ "next" \in DOMAIN view.answer.data

\* C18: every request with a page parameter outside 1..N is answered 404
C18_AnyPageOutsideIs404 ==
  (view.op = "collection" /\ view.username \in LocalActors /\ view.page # None
   /\ ~(IsInt(view.page) /\ IntOf(view.page) \in 1..NumPages(ViewedCount)))
  => view.answer.status = 404

\* C19 (as amended): the depth a Note reports never exceeds 5; it is
\* min(d, 5) for a Note loaded with its tree fields, d its depth in the reply
\* tree, and 1 for a Note loaded without them; the filter reports the
\* smaller of its two numbers.
C19_DepthClampedWhenAnnotated ==
  /\ view.op = "max_depth"
       => /\ view.answer <= DepthCap
          /\ view.annotated => view.answer = Min(view.depth, DepthCap)
          /\ ~view.annotated => view.answer = 1
  /\ (view.op = "filter" /\ view.value.kind = "int" /\ view.num.kind = "int")
       => view.answer = IntVal(Min(view.value.v, view.num.v))

\* C19: a note at depth 7, loaded with its tree fields, reported 5
C19_DepthSevenReportsFive ==
  view.op = "max_depth" /\ view.annotated /\ view.depth = 7 /\ view.answer = 5

\* C19: the depth reported for any Note is min(d, 5)
C19_DepthIsMinOfDepthAndCap ==
  view.op = "max_depth" => view.answer = Min(view.depth, DepthCap)

\* C20: for a discovery document without a self link of the ActivityPub
\* type, finger raises nothing and returns profile None, and resolving the
\* uncached handle creates no RemoteActor.
C20_NoProfileNothingCreated ==
  /\ (view.op = "finger" /\ view.nolink)
       => view.exc = None /\ view.data["profile"] = <<>>
  /\ (view.op = "resolve" /\ view.nolink /\ view.stored = 0)
       => ~view.created /\ view.actor = <<>>

\* C20: r1@remote, not stored, was resolved against an empty links array
C20_EmptyLinksResolved ==
  /\ view.op = "resolve" /\ view.username = "r1" /\ view.stored = 0
  /\ view.answer.kind = "ok" /\ GetAttr(view.answer.doc, "links", <<1>>) = <<>>

\* C20: resolving an uncached handle whose discovery document has no self
\* link raises nothing, returns no actor and creates no RemoteActor
C20_NoProfileResolvesToNone ==
  (view.op = "resolve" /\ view.nolink /\ view.stored = 0)
  => view.exc = None /\ view.actor = <<>> /\ ~view.created

\* the profile fetch of the last finger or fetch_remote_profile call went to
\* the network and ended the way `outcome` says
ProfileFetchEnded(outcome) ==
  /\ view.op \in {"finger", "fetch"}
  /\ view.pfetch = outcome /\ ~view.cached
  /\ view.op = "finger" => view.answer.kind = "ok" /\ ~view.nolink

\* C21: a failed well-known lookup (non-2xx, no response, invalid JSON) and
\* a profile fetch answered non-2xx or not at all raise WebfingerException,
\* in finger and in fetch_remote_profile.
C21_RequestFailureIsWebfingerException ==
  /\ (view.op = "finger" /\ view.answer.kind # "ok") => view.exc = "WebfingerException"
  /\ \A outcome \in {"http404", "http410", "noresponse"} :
       ProfileFetchEnded(outcome) => view.exc = "WebfingerException"

\* C21: the profile fetch finger made after a good lookup was answered 404
C21_FingerProfileFetch404 ==
  view.op = "finger" /\ ProfileFetchEnded("http404") /\ view.exc = "WebfingerException"

\* C21: every failure of finger and of fetch_remote_profile is a
\* WebfingerException
C21_EveryFailureIsWebfingerException ==
  (view.op \in {"finger", "fetch"} /\ view.exc # None) => view.exc = "WebfingerException"

\* C22: resolutions by profile URL leave at most one RemoteActor per URL;
\* resolving a URL that has a record fetches nothing, raises nothing and
\* leaves the record as it is, whatever the network would answer.
C22_ResolveUrlIdempotentCached ==
  /\ \A url \in RemoteActorUrls : remoteActors[url] <= 1
  /\ (view.op = "resolve_url" /\ view.stored = 1)
       => view.exc = None /\ ~view.created /\ ~view.fetched
  /\ (view.op = "resolve_url" /\ view.exc = None) => remoteActors[view.url] = 1

\* C22: R1 has a record, its profile is not in the cache and its server
\* answers 404; R1 was resolved
C22_StoredResolvedWhileDown ==
  /\ view.op = "resolve_url" /\ view.url = R1 /\ view.stored = 1
  /\ ~view.cached /\ view.pfetch = "http404"

\* C23: every stored Note has a local or a remote author.
C23_NeverWithoutAuthor ==
  \A i \in DOMAIN notes : notes[i].local_actor # None \/ notes[i].remote_actor # NoUrl

\* C23: a note of alice and a note of the remote actor R1 are stored
C23_LocalAndRemoteNoteStored ==
  /\ \E i \in DOMAIN notes : notes[i].local_actor = "alice"
  /\ \E i \in DOMAIN notes : notes[i].remote_actor = R1 /\ notes[i].content_url = X1
  /\ last.op = "inbox" /\ last.type = "Create"

\* C23: every stored Note has exactly one of local_actor and remote_actor set
C23_ExactlyOneAuthor ==
  \A i \in DOMAIN notes : (notes[i].local_actor = None) # (notes[i].remote_actor = NoUrl)

\* the last request is an acknowledged Create of an object of another host
CreateStored == /\ last.op = "inbox" /\ last.type = "Create" /\ last.verify = "success"
                /\ last.target = "foreign" /\ resp.status = 200

\* C24: after an acknowledged Create whose fetched document carries the id
\* it was fetched under, exactly one Note has that content URL; it holds the
\* author and the body of the document, and its parent is the Note at the
\* document's inReplyTo.
C24_OneNotePerFetchedId ==
  (CreateStored /\ last.doc.id = last.object)
  => /\ Cardinality(NotesAt(notes, last.object)) = 1
     /\ \A i \in NotesAt(notes, last.object) :
          /\ notes[i].remote_actor = last.doc.attributedTo
          /\ notes[i].content = last.doc.content
          /\ last.doc.inReplyTo # NoUrl
               => /\ notes[i].parent \in DOMAIN notes
                  /\ notes[notes[i].parent].content_url = last.doc.inReplyTo

\* C24: X1 was created and now updated from a document with another body
C24_RemoteNoteUpdated ==
  /\ CreateStored /\ last.object = X1 /\ last.doc = Doc(X1, R1, "b", NoUrl)
  /\ last.changed /\ Len(notes) = 1

\* C24: after an acknowledged Create for a remote object id exactly one Note
\* with that content URL is stored
C24_OneNotePerObjectId ==
  (CreateStored /\ ~StartsWithBase(last.object))
  => Cardinality(NotesAt(notes, last.object)) = 1

\* C25: under concurrent upserts of one content URL at most one Note with
\* that content URL exists in every reachable state.
C25_AtMostOneNotePerUrl ==
  \A u \in NoteUrls : Cardinality(NotesAt(notes, u)) <= 1

\* C26: when the fetch of the signing actor's profile is answered with an
\* HTTP error status, the inbox answers 410 for a Delete whose actor is gone
\* (410 upstream) and 401 otherwise, and nothing is changed.
C26_HttpFailureIs401Or410 ==
  (last.op = "inbox" /\ last.fetch \in {"http404", "http410"})
  => /\ resp.exc = None /\ ~last.changed /\ sent = <<>>
     /\ resp.status = (IF last.fetch = "http410" /\ last.type = "Delete" THEN 410 ELSE 401)

\* C26: a Delete arrived from an actor whose profile answers 410
C26_DeleteOfGoneActor ==
  last.op = "inbox" /\ last.fetch = "http410" /\ last.type = "Delete" /\ resp.status = 410

\* C26: a failed fetch of the signing actor's profile, with or without an
\* upstream HTTP response, ends in a 401 or 410 response and never in an
\* unhandled exception
C26_DiscoveryFailureAnswered ==
  (last.op = "inbox" /\ last.fetch \in {"http404", "http410", "noresponse"})
  => resp.exc = None /\ resp.status \in {401, 410}

\* the text is a well-formed whole-second or fractional-second timestamp
WholeSecondText(text) ==
  Len(text) = 4 /\ text[1] \in ValidDates /\ text[3] \in ValidTimes /\ text[4] = "Z"
FractionalSecondText(text) ==
  /\ Len(text) = 6 /\ text[1] \in ValidDates /\ text[3] \in ValidTimes /\ text[6] = "Z"
  /\ Len(text[5]) \in 1..6

\* C27: utils.dates.parse_datetime reads a whole-second text as its date and
\* time with no microseconds and a fractional-second text as its date and
\* time with the fraction in microseconds, so a fraction of 0 gives the
\* instant of the whole-second text; models.parse_datetime reads the
\* whole-second text the same way.
C27_BothFormsParsedByUtils ==
  /\ (view.op \in {"utils.parse_datetime", "models.parse_datetime"}
      /\ WholeSecondText(view.text))
       => view.answer = Parsed(None, Instant(view.text[1], view.text[3], 0))
  /\ (view.op = "utils.parse_datetime" /\ FractionalSecondText(view.text))
       => /\ view.answer.exc = None
          /\ view.answer.instant.date = view.text[1]
          /\ view.answer.instant.time = view.text[3]
          /\ view.text[5] = <<"0">>
               => view.answer = parse_datetime(<<view.text[1], "T", view.text[3], "Z">>)
          /\ view.text = StampMicroseconds => view.answer.instant.microsecond = 296128
          /\ view.text[5] = <<"5">> => view.answer.instant.microsecond = 500000

\* C27: '2024-01-13T05:59:20.296128Z' was parsed by utils.dates.parse_datetime
C27_FractionalParsed ==
  /\ view.op = "utils.parse_datetime" /\ view.text = StampMicroseconds
  /\ view.answer.exc = None

\* C27: the parse_datetime upsert_remote calls accepts both forms
C27_ModelsParseAcceptsBothForms ==
  (view.op = "models.parse_datetime"
   /\ (WholeSecondText(view.text) \/ FractionalSecondText(view.text)))
  => view.answer.exc = None

\* the get_object calls of the last acknowledged Create
ChainFetched ==
  IF last.op = "inbox" /\ last.type = "Create" /\ resp.status = 200
  THEN {last.fetched[i] : i \in 1..Len(last.fetched)} ELSE {}

\* C28: a Create of a note whose reply chain is remote, finite and acyclic
\* never exhausts the recursion, and once it is acknowledged every note it
\* fetched is stored exactly once, a note that was new is stored after its
\* parent, and a note that replies has as parent the one Note whose content
\* URL is its inReplyTo
C28_ChainStoredOnceWithParents ==
  /\ resp.exc # "RecursionError"
  /\ \A e \in ChainFetched :
       /\ Cardinality(NotesAt(notes, e.url)) = 1
       /\ \A i \in NotesAt(notes, e.url) :
            /\ ~e.known => notes[i].parent < i
            /\ e.doc.inReplyTo # NoUrl =>
                 /\ Cardinality(NotesAt(notes, e.doc.inReplyTo)) = 1
                 /\ notes[i].parent \in NotesAt(notes, e.doc.inReplyTo)

\* C28 witness: one Create stored a thread of three notes, each under its parent
C28_ThreeNoteChainStored ==
  /\ ChainFetched # {}
  /\ last.object = X1
  /\ Len(last.fetched) = 5
  /\ Len(notes) = 3
  /\ \A e \in ChainFetched : ~e.known

\* C28 as stated: no ancestor that is already stored is fetched again
C28_FetchesOnlyUnknownAncestors ==
  \A i \in 2..Len(last.fetched) :
    last.op = "inbox" /\ last.type = "Create" => ~last.fetched[i].known

\* the remote actors that lose a Follower edge, a like or an announce in a step
Losers ==
  {r \in RemoteActorUrls :
     \/ \E u \in LocalActors : followers'[<<r, u>>] < followers[<<r, u>>]
     \/ \E i \in 1..Len(notes) :
          i <= Len(notes') /\ (\/ notes'[i].likes[r] < notes[i].likes[r]
                               \/ notes'[i].announces[r] < notes[i].announces[r])}

UndoStep == last'.op = "inbox" /\ last'.type = "Undo"

\* C29: an Undo removes the Follower edge, like or announce of no actor but
\* the one its nested object names
C29_UndoRemovesNestedActorsEffect ==
  [][UndoStep => Losers \subseteq {last'.undone}]_vars

\* C29 witness: an actor's own Undo of its like was acknowledged and removed it
C29_OwnLikeUndone ==
  /\ last.op = "inbox" /\ last.type = "Undo" /\ last.inner = "Like"
  /\ last.actor = last.undone
  /\ last.changed /\ resp.status = 200

\* C29 as stated: an Undo removes the Follower edge, like or announce of no
\* actor but the authenticated sender of the request
C29_UndoRemovesOnlySendersEffect ==
  [][UndoStep => Losers \subseteq {last'.actor}]_vars

\* an upsert whose fan-out raised on a failed delivery
FanOutFailed(l, r) == l.op = "upsert" /\ r.status = 500 /\ r.exc = "HTTPError"

\* C30: when a delivery of an upsert's fan-out fails, the Note is stored
\* with the body the upsert was given, and the next upsert of the same
\* content URL finds it and announces an Update
C30_FailedFanOutKeepsNote ==
  [][(FanOutFailed(last', resp') =>
        (/\ NotesAt(notes', last'.object) # {}
         /\ \A i \in NotesAt(notes', last'.object) :
              notes'[i].content = upserted'[last'.object]))
     /\ ((FanOutFailed(last, resp) /\ last'.op = "upsert" /\ last'.object = last.object) =>
           (last'.before = 1 /\ last'.called = "Update"))]_vars

\* C30 witness: the first upsert of a note failed at its first delivery, and
\* the note is stored
C30_NewNoteKeptAfterFailure ==
  /\ FanOutFailed(last, resp)
  /\ last.before = 0 /\ last.called = "Create"
  /\ Len(sent) = 1 /\ ~sent[1].ok
  /\ NotesAt(notes, last.object) # {}

\* the verifier was run on a request whose Signature header has a declared
\* headers list
DeclaresList ==
  /\ sigResult # NoResult
  /\ "signature" \in DOMAIN sigReq.headers
  /\ MalformedParts(SignatureParts(sigReq.headers["signature"])) = {}
  /\ "headers" \in DOMAIN parse_signature_header(sigReq.headers["signature"])

DeclaredNames ==
  {DeclaredFields(parse_signature_header(sigReq.headers["signature"]))[i] :
     i \in DOMAIN DeclaredFields(parse_signature_header(sigReq.headers["signature"]))}

\* the declared list leaves out (request-target) or date, or the request is
\* a POST and the list leaves out digest
OmitsRequired ==
  /\ DeclaresList
  /\ \/ "(request-target)" \notin DeclaredNames
     \/ "date" \notin DeclaredNames
     \/ sigReq.method = "post" /\ "digest" \notin DeclaredNames

\* C31: a request whose declared list leaves out a required field is never
\* verified, and it gets the failure variant whenever it is not a POST
\* without a digest header; a body that matches its digest header is
\* refused for the missing field
C31_OmittedFieldNeverVerified ==
  OmitsRequired =>
    /\ sigResult.kind # "success"
    /\ (sigReq.method = "post" => "digest" \in DOMAIN sigReq.headers) =>
         /\ sigResult.kind = "fail"
         /\ sigResult.error \in {"Digest mismatch", "Missing required signature fields",
                                 "Missing digest field"}
         /\ (sigResult.error = "Digest mismatch")
              = (sigReq.method = "post" /\ DigestMismatch(sigReq.headers, sigReq.body))

\* C31 witness: a POST signed by the resolved actor's own key over the
\* fields it declared, date not among them, was refused
C31_ValidBytesWithoutDate ==
  /\ OmitsRequired
  /\ sigReq.method = "post"
  /\ "date" \notin DeclaredNames /\ "digest" \in DeclaredNames
  /\ sigHist.edits = 0
  /\ sigChecker.public_key = sigHist.signer
  /\ sigChecker.key_id = sigHist.keyId
  /\ sigResult = Fail("Missing required signature fields")

\* C31 as stated: every request whose declared list leaves out a required
\* field gets the failure variant
C31_OmittedFieldIsFailure ==
  OmitsRequired => sigResult.kind = "fail"

\* a step in which upsert or delete_local is called with the content URL of
\* a stored remote-authored Note
LocalCallOnRemoteNote ==
  /\ last'.op \in {"upsert", "delete_local"}
  /\ NotesAt(notes, last'.object) # {}
  /\ \A i \in NotesAt(notes, last'.object) :
       notes[i].local_actor = None /\ notes[i].remote_actor # NoUrl

\* C32: such a call delivers nothing and ends in AttributeError, adds and
\* removes no Note and changes no author; delete_local changes no Note at
\* all, upsert changes nothing but the body of the Note at that URL
C32_RemoteNoteKeptButBody ==
  [][LocalCallOnRemoteNote =>
       /\ sent' = <<>>
       /\ resp' = Response(500, "AttributeError")
       /\ Len(notes') = Len(notes)
       /\ last'.op = "delete_local" => notes' = notes
       /\ \A i \in 1..Len(notes) :
            IF i \in NotesAt(notes, last'.object)
            THEN notes'[i] = [notes[i] EXCEPT !.content = notes'[i].content]
            ELSE notes'[i] = notes[i]]_vars

\* C32 witness: upsert was called with the URL of the stored note of R1
\* while alice had a follower, and nothing was delivered
C32_UpsertOfRemoteNote ==
  /\ last.op = "upsert" /\ last.object = X1 /\ last.before = 1
  /\ resp = Response(500, "AttributeError")
  /\ sent = <<>>
  /\ followers[<<R2, "alice">>] = 1
  /\ \A i \in NotesAt(notes, X1) : notes[i].remote_actor = R1 /\ notes[i].local_actor = None

\* C32 as stated: upsert and delete_local called with the content URL of a
\* stored remote-authored Note change no Note and deliver nothing
C32_RemoteNoteUntouched ==
  [][LocalCallOnRemoteNote => (notes' = notes /\ sent' = <<>>)]_vars
====
